---- MODULE Spec2Model ----
(***************************************************************************)
(* A model of the dota2-coach repository.                                  *)
(*                                                                         *)
(*  - src/src/bin/coach.rs: the coach binary.  Its GSI endpoint ingests a  *)
(*    GameState, updates the EnemyPositionTracker, the                     *)
(*    HeroPerformanceTracker and the TeamFightAnalyzer, and rotates        *)
(*    game_state into last_game_state.                                     *)
(*  - src/src/server.rs: the GSI endpoint of the terminal app, which only  *)
(*    rotates the two snapshots, in three separate lock scopes.            *)
(*                                                                         *)
(* Rust values are modelled as follows.  Option<T>: None is <<>> and       *)
(* Some(v) is <<v>>.  Vec<T>: a sequence.  HashMap<K, V>: a function whose *)
(* DOMAIN is the key set; a HashMap that the code iterates (the minimap)   *)
(* is the sequence of its values in iteration order.  A String that the    *)
(* code rewrites is a sequence of tokens (see format_hero_name).           *)
(***************************************************************************)
EXTENDS Integers, Sequences, FiniteSets, TLC

VARIABLES
    game_state,           \* Arc<Mutex<Option<GameState>>>: the current snapshot
    last_game_state,      \* Arc<Mutex<Option<GameState>>>: the previous snapshot
    enemy_tracker,        \* EnemyPositionTracker
    perf_tracker,         \* HeroPerformanceTracker
    team_fight_analyzer,  \* TeamFightAnalyzer
    arg_state,            \* history: `state` of the latest tracker update call
    arg_last,             \* history: `last_state` of the latest tracker update call
    steps,                \* number of requests / calls made so far
    pc,                   \* server.rs: each handler's position in the closure
    current_gs,           \* server.rs: each handler's local `current_gs`
    req,                  \* server.rs: the GameState each handler is storing
    stored,               \* history: the snapshots in the order they were stored
    output,               \* the value the latest query call returned
    running,              \* app.rs: App.running
    channel,              \* event.rs: the events sent and not yet received
    processed,            \* history: the snapshots each tracker of main was updated with
    enemy_heroes,         \* app.rs: App.enemy_heroes
    app_game_time,        \* app.rs: App.game_time
    app_pc                \* app.rs: the position of App::run in its loop

vars == <<game_state, last_game_state, enemy_tracker, perf_tracker,
          team_fight_analyzer, arg_state, arg_last, steps, pc, current_gs,
          req, stored, output, running, channel, processed,
          enemy_heroes, app_game_time, app_pc>>

-----------------------------------------------------------------------------
(* Option and Vec helpers *)

None == <<>>

Some(v) == <<v>>

IsSome(o) == Len(o) = 1

IsNone(o) == Len(o) = 0

\* Option::unwrap_or
UnwrapOr(o, d) == IF Len(o) = 0 THEN d ELSE o[1]

Last(s) == s[Len(s)]

RECURSIVE Repeat(_, _)
Repeat(x, n) == IF n <= 0 THEN <<>> ELSE <<x>> \o Repeat(x, n - 1)

\* i32 division: truncates toward zero
TruncDiv(a, b) ==
    IF (a >= 0) = (b > 0)
    THEN (IF a >= 0 THEN a ELSE -a) \div (IF b > 0 THEN b ELSE -b)
    ELSE -((IF a >= 0 THEN a ELSE -a) \div (IF b > 0 THEN b ELSE -b))

Abs(x) == IF x < 0 THEN -x ELSE x

Sign(x) == IF x < 0 THEN -1 ELSE IF x > 0 THEN 1 ELSE 0

-----------------------------------------------------------------------------
(* f32 arithmetic on magnitudes.  A positive f32 is m / 2^k with a          *)
(* significand m of at most 24 bits; every operation rounds its exact       *)
(* result to the nearest such value, ties to the even significand.  The     *)
(* operands stay below the sizes noted at each operator: an i32 below 2^24  *)
(* is an f32 exactly, and no intermediate value leaves 32 bits.             *)

\* n / d rounded to the nearest integer, ties to even (n >= 0, d > 0)
RoundHalfEven(n, d) ==
    LET q == n \div d
        r == n % d
    IN  IF 2 * r > d \/ (2 * r = d /\ q % 2 = 1) THEN q + 1 ELSE q

\* binary long division: given a * 2^k = q * b + r with r < b, the same for
\* the least scale at which the quotient q has 24 bits
RECURSIVE LongDivide(_, _, _, _)
LongDivide(q, r, b, k) ==
    IF q >= 2^23 THEN [q |-> q, r |-> r, k |-> k]
    ELSE IF 2 * r >= b THEN LongDivide(2 * q + 1, 2 * r - b, b, k + 1)
    ELSE LongDivide(2 * q, 2 * r, b, k + 1)

\* the bits of n beyond 24: the least s >= from with n < 2^(24 + s)
RECURSIVE ExcessBits(_, _)
ExcessBits(n, from) ==
    IF n \div 2^from < 2^24 THEN from ELSE ExcessBits(n, from + 1)

\* a as f32 / b as f32 for 0 <= a < 2^24 and 0 < b < 2^24: the significand
\* m and the scale k of the quotient m / 2^k, the exact quotient rounded to
\* 24 bits
F32Div(a, b) ==
    IF a = 0 THEN [m |-> 0, k |-> 0]
    ELSE LET d == LongDivide(a \div b, a % b, b, 0)
         IN  [m |-> IF 2 * d.r > b \/ (2 * d.r = b /\ d.q % 2 = 1)
                    THEN d.q + 1 ELSE d.q,
              k |-> d.k]

\* (a as f32 * f) as i32 for 0 <= a < 2^7 and f = m / 2^k: the product
\* rounded to 24 bits, then truncated to an integer; the product is below
\* 2^31, so from scale 31 on the integer is 0
F32MulToI32(a, f) ==
    LET p == a * f.m
        s == ExcessBits(p, 0)
        r == RoundHalfEven(p, 2^s)
    IN  IF f.k >= 31 THEN 0 ELSE (r * 2^s) \div 2^f.k

-----------------------------------------------------------------------------
(* Program constants *)

\* EnemyPositionTracker::update keeps at most this many positions per hero
MaxHistory == 100

\* HeroPerformanceTracker::update keeps at most this many samples per series
MaxSamples == 20

\* display_coaching_insights warns of a predicted position closer than this
ProximityRange == 2000

\* TeamFightAnalyzer::update: seconds without a kill that end a fight
FightQuiet == 15

\* TeamFightAnalyzer::update: the window in which kills are counted
FightWindow == 30

\* TeamFightAnalyzer::update: kills in the window that start a fight
FightKills == 3

\* display_metrics: the GPM trend thresholds
TrendBig == 100

TrendSmall == 20

-----------------------------------------------------------------------------
(* GameState (coach.rs:14-172), reduced to the fields the trackers read *)

\* struct Map: game_time
Map(game_time) == [game_time |-> game_time]

\* struct Hero: alive
Hero(alive) == [alive |-> alive]

\* struct Player: gpm, xpm, last_hits, team_name, kill_list
Player(gpm, xpm, last_hits, team_name, kill_list) ==
    [gpm |-> gpm, xpm |-> xpm, last_hits |-> last_hits,
     team_name |-> team_name, kill_list |-> kill_list]

\* struct MinimapObject: image, name, team, xpos, ypos
MinimapObject(image, name, team, xpos, ypos) ==
    [image |-> image, name |-> name, team |-> team, xpos |-> xpos, ypos |-> ypos]

\* struct GameState: map, player, hero, minimap
GameState(map, player, hero, minimap) ==
    [map |-> map, player |-> player, hero |-> hero, minimap |-> minimap]

\* state.map.as_ref().and_then(|m| m.game_time).unwrap_or(0)
GameTimeOf(state) ==
    IF IsNone(state.map) THEN 0 ELSE UnwrapOr(state.map[1].game_time, 0)

-----------------------------------------------------------------------------
(* String conversions.  A string the code splits is a sequence of tokens:   *)
(* the literal the code searches for is one token, "_" is one token, and   *)
(* every other token is a word.  The characters of the model are ASCII.    *)

LowerLetters == "abcdefghijklmnopqrstuvwxyz"

UpperLetters == "ABCDEFGHIJKLMNOPQRSTUVWXYZ"

\* the letters of an alphabet, each as a one-character string
LettersOf(letters) == {SubSeq(letters, i, i) : i \in 1..Len(letters)}

LowerSet == LettersOf(LowerLetters)

UpperSet == LettersOf(UpperLetters)

\* the place of the one-character string c in `letters`
LetterIndex(c, letters) ==
    CHOOSE i \in 1..Len(letters) : SubSeq(letters, i, i) = c

\* the upper-case letter of every lower-case letter
UpperOf == [c \in LowerSet |->
               LET i == LetterIndex(c, LowerLetters) IN SubSeq(UpperLetters, i, i)]

\* the lower-case letter of every upper-case letter
LowerOf == [c \in UpperSet |->
               LET i == LetterIndex(c, UpperLetters) IN SubSeq(LowerLetters, i, i)]

\* char::to_uppercase
ToUpperChar(c) == IF c \in LowerSet THEN UpperOf[c] ELSE c

\* char::to_lowercase
ToLowerChar(c) == IF c \in UpperSet THEN LowerOf[c] ELSE c

\* the closure of format_hero_name on one word: the first character
\* upper-cased, followed by the rest of the word; "" for the empty word
Capitalize(w) ==
    IF w = "" THEN "" ELSE ToUpperChar(SubSeq(w, 1, 1)) \o SubSeq(w, 2, Len(w))

\* name.replace("npc_dota_hero_", ""), split('_'), capitalize, join(" ")
format_hero_name(name) ==
    LET stripped == SelectSeq(name, LAMBDA c : c # "npc_dota_hero_")
    IN  [i \in 1..Len(stripped) |->
            IF stripped[i] = "_" THEN " " ELSE Capitalize(stripped[i])]

\* format!("Enemy{}", victim_id.replace("victimid_", ""))
EnemyName(victim_id) ==
    <<"Enemy">> \o SelectSeq(victim_id, LAMBDA c : c # "victimid_")

\* str::to_lowercase: every character lower-cased
RECURSIVE ToLowercase(_)
ToLowercase(t) ==
    IF t = "" THEN ""
    ELSE ToLowerChar(SubSeq(t, 1, 1)) \o ToLowercase(SubSeq(t, 2, Len(t)))

\* to_lowercase of the usual spellings of the team names, evaluated once
LowercaseTeamNames ==
    [t \in {"radiant", "Radiant", "RADIANT", "dire", "Dire", "DIRE"} |-> ToLowercase(t)]

\* team_name.to_lowercase()
LowercaseTeam(t) ==
    IF t \in DOMAIN LowercaseTeamNames THEN LowercaseTeamNames[t] ELSE ToLowercase(t)

-----------------------------------------------------------------------------
(* EnemyPositionTracker (coach.rs:345-484) *)

NoPositions == [n \in {} |-> <<>>]

\* EnemyPositionTracker::new
EnemyPositionTracker_new == [positions |-> NoPositions, last_game_time |-> 0]

\* a variant that lets a snapshot of the same clock through
IsStale_Strict(tracker, state) == GameTimeOf(state) < tracker.last_game_time

\* the early return of update: the snapshot is not newer than the last one
IsStale(tracker, state) == GameTimeOf(state) <= tracker.last_game_time

\* player.team_name lower-cased, "unknown" when the player or the team is absent
PlayerTeam(state) ==
    IF IsNone(state.player) THEN "unknown"
    ELSE IF IsNone(state.player[1].team_name) THEN "unknown"
    ELSE LowercaseTeam(state.player[1].team_name[1])

\* a variant that takes team 3 for the enemy whatever the player's team
EnemyTeamId_Always3(state) == 3

\* let enemy_team_id = if player_team == "radiant" { 3 } else { 2 }
EnemyTeamId(state) == IF PlayerTeam(state) = "radiant" THEN 3 ELSE 2

\* the records update takes a position from
IsTracked(obj, enemy_team_id) ==
    /\ obj.image = "minimap_enemyicon"
    /\ obj.team = enemy_team_id
    /\ IsSome(obj.name)

\* a variant that drops the newest position instead of the oldest
LimitHistory_DropNewest(positions) ==
    IF Len(positions) > MaxHistory THEN SubSeq(positions, 1, MaxHistory) ELSE positions

\* positions.len() > 100 => positions.remove(0)
LimitHistory(positions) ==
    IF Len(positions) > MaxHistory THEN Tail(positions) ELSE positions

\* a variant that takes one position per hero and clock
PushPosition_OncePerName(positions, hero_name, sample) ==
    LET old == IF hero_name \in DOMAIN positions THEN positions[hero_name] ELSE <<>>
    IN  IF old # <<>> /\ old[Len(old)][1] = sample[1] THEN positions
        ELSE [n \in DOMAIN positions \cup {hero_name} |->
                 IF n = hero_name THEN LimitHistory(Append(old, sample))
                 ELSE positions[n]]

\* entry(hero_name).or_insert_with(Vec::new).push(sample), then the limit
PushPosition(positions, hero_name, sample) ==
    LET old == IF hero_name \in DOMAIN positions THEN positions[hero_name] ELSE <<>>
    IN  [n \in DOMAIN positions \cup {hero_name} |->
            IF n = hero_name THEN LimitHistory(Append(old, sample)) ELSE positions[n]]

\* for (_, obj) in minimap { ... }: minimap is in iteration order
RECURSIVE ScanMinimap(_, _, _, _)
ScanMinimap(positions, minimap, enemy_team_id, current_game_time) ==
    IF minimap = <<>> THEN positions
    ELSE LET obj == Head(minimap)
             next == IF IsTracked(obj, enemy_team_id)
                     THEN PushPosition(positions, format_hero_name(obj.name[1]),
                                       <<current_game_time, <<obj.xpos, obj.ypos>>>>)
                     ELSE positions
         IN  ScanMinimap(next, Tail(minimap), enemy_team_id, current_game_time)

\* a variant that moves last_game_time only when the snapshot added a sample
EnemyPositionTracker_update_ClockOnSample(tracker, state) ==
    IF IsStale(tracker, state) THEN tracker
    ELSE LET scanned == IF IsNone(state.minimap) THEN tracker.positions
                        ELSE ScanMinimap(tracker.positions, state.minimap[1],
                                         EnemyTeamId(state), GameTimeOf(state))
         IN  [positions |-> scanned,
              last_game_time |-> IF scanned = tracker.positions
                                 THEN tracker.last_game_time
                                 ELSE GameTimeOf(state)]

\* EnemyPositionTracker::update
EnemyPositionTracker_update(tracker, state) ==
    IF IsStale(tracker, state) THEN tracker
    ELSE [positions |->
             IF IsNone(state.minimap) THEN tracker.positions
             ELSE ScanMinimap(tracker.positions, state.minimap[1],
                              EnemyTeamId(state), GameTimeOf(state)),
          last_game_time |-> GameTimeOf(state)]

\* (d as f32 * (time_since_seen as f32 / dt as f32)) as i32; the cast
\* truncates toward zero
Extrapolate(d, time_since_seen, dt) ==
    Sign(d) * Sign(time_since_seen)
    * F32MulToI32(Abs(d), F32Div(Abs(time_since_seen), dt))

\* a variant that still predicts 31 seconds after the latest sample
SeenRecently_Late(time_since_seen) == time_since_seen <= 31

\* a variant that predicts for longer than get_movement_descriptions describes
SeenRecently_Long(time_since_seen) == time_since_seen <= 61

\* the test `time_since_seen <= 30` of predict_movements
SeenRecently(time_since_seen) == time_since_seen <= 30

\* the body of the loop of predict_movements for one history: the predicted
\* position, or None when the hero is skipped
PredictOne(positions, game_time) ==
    IF Len(positions) < 2 THEN None
    ELSE LET latest == positions[Len(positions)]
             second_last == positions[Len(positions) - 1]
             time_since_seen == game_time - latest[1]
             dx == latest[2][1] - second_last[2][1]
             dy == latest[2][2] - second_last[2][2]
             dt == latest[1] - second_last[1]
         IN  IF SeenRecently(time_since_seen) /\ dt > 0
             THEN Some(<<latest[2][1] + Extrapolate(dx, time_since_seen, dt),
                         latest[2][2] + Extrapolate(dy, time_since_seen, dt)>>)
             ELSE None

\* EnemyPositionTracker::predict_movements; `order` is the order in which the
\* loop meets the keys of self.positions
RECURSIVE predict_movements(_, _, _)
predict_movements(tracker, game_time, order) ==
    IF order = <<>> THEN <<>>
    ELSE LET hero_name == Head(order)
             one == PredictOne(tracker.positions[hero_name], game_time)
         IN  (IF IsSome(one) THEN <<<<hero_name, one[1]>>>> ELSE <<>>)
             \o predict_movements(tracker, game_time, Tail(order))

-----------------------------------------------------------------------------
(* HeroPerformanceTracker (coach.rs:195-342) *)

\* HeroPerformanceTracker::new
HeroPerformanceTracker_new ==
    [gpm_samples |-> <<>>, xpm_samples |-> <<>>, last_hits_samples |-> <<>>,
     last_death_time |-> 0, death_count |-> 0]

\* a variant that drops the newest sample instead of the oldest
PushSample_KeepOldest(samples, x) ==
    LET pushed == Append(samples, x)
    IN  IF Len(pushed) > MaxSamples THEN SubSeq(pushed, 1, MaxSamples) ELSE pushed

\* samples.push(x); if samples.len() > 20 { samples.remove(0); }
PushSample(samples, x) ==
    LET pushed == Append(samples, x)
    IN  IF Len(pushed) > MaxSamples THEN Tail(pushed) ELSE pushed

\* one series of update: pushed only when the player carries the value
SampleSeries(samples, state, value) ==
    IF IsNone(state.player) THEN samples
    ELSE IF IsNone(value) THEN samples
    ELSE PushSample(samples, <<GameTimeOf(state), value[1]>>)

\* a variant of the sampler's test that, unlike the detector's, counts a
\* death only when the last alive flag is known
PerfDetectsDeath_KnownOnly(state, last_state) ==
    /\ IsSome(state.hero)
    /\ IsSome(last_state)
    /\ IsSome(last_state[1].hero)
    /\ UnwrapOr(last_state[1].hero[1].alive, FALSE)
    /\ ~UnwrapOr(state.hero[1].alive, TRUE)

\* "Detect deaths" in HeroPerformanceTracker::update
PerfDetectsDeath(state, last_state) ==
    /\ IsSome(state.hero)
    /\ IsSome(last_state)
    /\ IsSome(last_state[1].hero)
    /\ UnwrapOr(last_state[1].hero[1].alive, TRUE)
    /\ ~UnwrapOr(state.hero[1].alive, TRUE)

\* HeroPerformanceTracker::update
HeroPerformanceTracker_update(perf, state, last_state) ==
    LET p == IF IsNone(state.player) THEN Player(None, None, None, None, None)
             ELSE state.player[1]
        died == PerfDetectsDeath(state, last_state)
    IN  [gpm_samples |-> SampleSeries(perf.gpm_samples, state, p.gpm),
         xpm_samples |-> SampleSeries(perf.xpm_samples, state, p.xpm),
         last_hits_samples |-> SampleSeries(perf.last_hits_samples, state, p.last_hits),
         last_death_time |-> IF died THEN GameTimeOf(state) ELSE perf.last_death_time,
         death_count |-> IF died THEN perf.death_count + 1 ELSE perf.death_count]

\* self.gpm_samples.iter().map(|(_, gpm)| gpm).sum::<i32>()
RECURSIVE SumValues(_)
SumValues(samples) ==
    IF samples = <<>> THEN 0 ELSE samples[1][2] + SumValues(Tail(samples))

\* one line of the report: the format string without its leading blanks and
\* its emoji, and the values formatted into it
Line(text, args) == [text |-> text, args |-> args]

\* current_gpm > avg_gpm + 100
TrendUpBig_Inclusive(current, avg) == current >= avg + TrendBig

TrendUpBig(current, avg) == current > avg + TrendBig

\* the if / else-if chain under "GPM trend"
TrendLine(current, avg) ==
    IF TrendUpBig(current, avg)
    THEN <<Line("GPM trending up significantly!", <<>>)>>
    ELSE IF current > avg + TrendSmall
    THEN <<Line("GPM trending up", <<>>)>>
    ELSE IF current < avg - TrendBig
    THEN <<Line("GPM trending down significantly", <<>>)>>
    ELSE IF current < avg - TrendSmall
    THEN <<Line("GPM trending down", <<>>)>>
    ELSE <<>>

\* "GPM trend"
GpmLines(perf) ==
    IF Len(perf.gpm_samples) >= 2
    THEN LET current_gpm == Last(perf.gpm_samples)[2]
             avg_gpm == TruncDiv(SumValues(perf.gpm_samples), Len(perf.gpm_samples))
         IN  <<Line("GPM: {} (Avg: {})", <<current_gpm, avg_gpm>>)>>
             \o TrendLine(current_gpm, avg_gpm)
    ELSE <<>>

\* "XPM trend"
XpmLines(perf) ==
    IF Len(perf.xpm_samples) >= 2
    THEN <<Line("XPM: {}", <<Last(perf.xpm_samples)[2]>>)>>
    ELSE <<>>

\* format!("{:.1}", n as f32 / d as f32) in tenths, for 0 <= n < 2^8 and
\* 0 < d < 2^7: the single-precision quotient, then its exact decimal value
\* rounded to one digit, a tie going to the even digit
Tenths(n, d) ==
    LET cs_per_min == F32Div(n, d)
    IN  RoundHalfEven(10 * cs_per_min.m, 2^cs_per_min.k)

\* a variant that uses the table of the first ten minutes throughout
CsBenchmark_EarlyTable(last_hits, minutes) ==
    IF last_hits >= 7 * minutes THEN <<Line("Excellent early game CS", <<>>)>>
    ELSE IF last_hits >= 5 * minutes THEN <<Line("Good early game CS", <<>>)>>
    ELSE IF last_hits < 3 * minutes
    THEN <<Line("Early game CS needs improvement", <<>>)>>
    ELSE <<>>

\* the benchmark under "Last hit efficiency"; cs_per_min >= k.0 is
\* last_hits >= k * minutes, both sides being exact in f32
CsBenchmark(last_hits, minutes) ==
    IF minutes < 10
    THEN IF last_hits >= 7 * minutes THEN <<Line("Excellent early game CS", <<>>)>>
         ELSE IF last_hits >= 5 * minutes THEN <<Line("Good early game CS", <<>>)>>
         ELSE IF last_hits < 3 * minutes
         THEN <<Line("Early game CS needs improvement", <<>>)>>
         ELSE <<>>
    ELSE IF last_hits >= 8 * minutes THEN <<Line("Excellent CS", <<>>)>>
         ELSE IF last_hits >= 6 * minutes THEN <<Line("Good CS", <<>>)>>
         ELSE IF last_hits < 4 * minutes THEN <<Line("CS needs improvement", <<>>)>>
         ELSE <<>>

\* "Last hit efficiency"
CsLines(perf, game_time) ==
    IF Len(perf.last_hits_samples) >= 2
    THEN LET current_last_hits == Last(perf.last_hits_samples)[2]
             minutes == TruncDiv(game_time, 60)
         IN  IF minutes > 0
             THEN <<Line("CS/min: {:.1}", <<Tenths(current_last_hits, minutes)>>)>>
                  \o CsBenchmark(current_last_hits, minutes)
             ELSE <<>>
    ELSE <<>>

\* "Death analysis"; deaths_per_min > 0.2 is 5 * death_count > minutes
DeathLines(perf, game_time) ==
    IF perf.death_count > 0
    THEN LET minutes == TruncDiv(game_time, 60)
             time_since_last_death == game_time - perf.last_death_time
         IN  <<Line("Deaths: {}", <<perf.death_count>>)>>
             \o (IF minutes > 0 /\ 5 * perf.death_count > minutes
                 THEN <<Line("High death rate, play more cautiously", <<>>)>>
                 ELSE <<>>)
             \o (IF time_since_last_death > 300
                 THEN <<Line("Good survival streak: {} minutes without dying",
                             <<TruncDiv(time_since_last_death, 60)>>)>>
                 ELSE <<>>)
    ELSE <<Line("Deaths: 0 - Excellent survival!", <<>>)>>

\* HeroPerformanceTracker::display_metrics
display_metrics(perf, game_time) ==
    GpmLines(perf) \o XpmLines(perf) \o CsLines(perf, game_time)
    \o DeathLines(perf, game_time)

-----------------------------------------------------------------------------
(* EnemyPositionTracker::get_movement_descriptions (coach.rs:441-483) *)

\* a variant that reports a tie on the horizontal axis
Direction_TieHorizontal(dx, dy) ==
    IF Abs(dx) >= Abs(dy)
    THEN (IF dx > 0 THEN "East" ELSE "West")
    ELSE (IF dy > 0 THEN "North" ELSE "South")

\* let direction = if dx.abs() > dy.abs() { .. } else { .. }
Direction(dx, dy) ==
    IF Abs(dx) > Abs(dy)
    THEN (IF dx > 0 THEN "East" ELSE "West")
    ELSE (IF dy > 0 THEN "North" ELSE "South")

\* the body of the loop of get_movement_descriptions for one history
DescribeOne(hero_name, positions, game_time) ==
    IF positions = <<>> THEN <<>>
    ELSE LET latest == positions[Len(positions)]
             time_since_seen == game_time - latest[1]
         IN  IF time_since_seen <= 60
             THEN <<Line("{}: Last seen {} seconds ago at ({}, {})",
                         <<hero_name, time_since_seen, latest[2][1], latest[2][2]>>)>>
                  \o (IF Len(positions) >= 2
                      THEN LET second_last == positions[Len(positions) - 1]
                           IN  <<Line("Moving {}",
                                      <<Direction(latest[2][1] - second_last[2][1],
                                                  latest[2][2] - second_last[2][2])>>)>>
                      ELSE <<>>)
             ELSE <<>>

\* EnemyPositionTracker::get_movement_descriptions; `order` is the order in
\* which the loop meets the keys of self.positions
RECURSIVE get_movement_descriptions(_, _, _)
get_movement_descriptions(tracker, game_time, order) ==
    IF order = <<>> THEN <<>>
    ELSE DescribeOne(Head(order), tracker.positions[Head(order)], game_time)
         \o get_movement_descriptions(tracker, game_time, Tail(order))

-----------------------------------------------------------------------------
(* TeamFightAnalyzer (coach.rs:487-603) *)

NoDeaths == [n \in {} |-> <<>>]

\* TeamFightAnalyzer::new
TeamFightAnalyzer_new ==
    [player_deaths |-> <<>>, enemy_deaths |-> NoDeaths, last_kill_time |-> 0,
     team_fight_detected |-> FALSE, team_fight_start |-> 0]

\* a variant that emits a death only when the last alive flag is known
FightDetectsDeath_KnownOnly(state, last_state) ==
    /\ IsSome(state.hero)
    /\ IsSome(last_state)
    /\ IsSome(last_state[1].hero)
    /\ UnwrapOr(last_state[1].hero[1].alive, FALSE)
    /\ ~UnwrapOr(state.hero[1].alive, TRUE)

\* "Detect player death" in TeamFightAnalyzer::update
FightDetectsDeath(state, last_state) ==
    /\ IsSome(state.hero)
    /\ IsSome(last_state)
    /\ IsSome(last_state[1].hero)
    /\ UnwrapOr(last_state[1].hero[1].alive, TRUE)
    /\ ~UnwrapOr(state.hero[1].alive, TRUE)

\* both snapshots carry a player with a kill list
HasKillLists(state, last_state) ==
    /\ IsSome(state.player)
    /\ IsSome(last_state)
    /\ IsSome(last_state[1].player)
    /\ IsSome(state.player[1].kill_list)
    /\ IsSome(last_state[1].player[1].kill_list)

\* last_kills.get(victim_id).unwrap_or(&0)
LastCount(last_kills, victim_id) ==
    IF victim_id \in DOMAIN last_kills THEN last_kills[victim_id] ELSE 0

\* the victim ids whose counter passes `kill_count > last_count`
NewKills(state, last_state) ==
    IF ~HasKillLists(state, last_state) THEN {}
    ELSE LET current_kills == state.player[1].kill_list[1]
             last_kills == last_state[1].player[1].kill_list[1]
         IN  {v \in DOMAIN current_kills :
                 current_kills[v] > LastCount(last_kills, v)}

\* a variant that pushes once per unit of the rise
PushesFor_PerUnit(state, last_state, victim_id) ==
    state.player[1].kill_list[1][victim_id]
    - LastCount(last_state[1].player[1].kill_list[1], victim_id)

\* the pushes of one victim id whose counter rose: one, whatever the rise
PushesFor(state, last_state, victim_id) == 1

\* the number of pushes to enemy_deaths[enemy_name] in one update
RECURSIVE PushCount(_, _, _, _)
PushCount(state, last_state, victims, enemy_name) ==
    IF victims = {} THEN 0
    ELSE LET v == CHOOSE x \in victims : TRUE
         IN  (IF EnemyName(v) = enemy_name THEN PushesFor(state, last_state, v) ELSE 0)
             + PushCount(state, last_state, victims \ {v}, enemy_name)

\* enemy_deaths.entry(enemy_name).or_insert_with(Vec::new).push(game_time)
RecordKills(enemy_deaths, state, last_state) ==
    LET victims == NewKills(state, last_state)
    IN  [n \in DOMAIN enemy_deaths \cup {EnemyName(v) : v \in victims} |->
            (IF n \in DOMAIN enemy_deaths THEN enemy_deaths[n] ELSE <<>>)
            \o Repeat(GameTimeOf(state), PushCount(state, last_state, victims, n))]

\* iter().filter(|time| **time >= window_start).count()
CountSince(times, window_start) ==
    Cardinality({i \in 1..Len(times) : times[i] >= window_start})

RECURSIVE SumSince(_, _, _)
SumSince(enemy_deaths, names, window_start) ==
    IF names = {} THEN 0
    ELSE LET n == CHOOSE x \in names : TRUE
         IN  CountSince(enemy_deaths[n], window_start)
             + SumSince(enemy_deaths, names \ {n}, window_start)

\* TeamFightAnalyzer::count_kills_in_window
count_kills_in_window(analyzer, game_time, window) ==
    CountSince(analyzer.player_deaths, game_time - window)
    + SumSince(analyzer.enemy_deaths, DOMAIN analyzer.enemy_deaths, game_time - window)

\* a variant that starts a fight one kill early
FightStarts_Early(analyzer, game_time) ==
    /\ ~analyzer.team_fight_detected
    /\ game_time - analyzer.last_kill_time < FightQuiet
    /\ count_kills_in_window(analyzer, game_time, FightWindow) >= FightKills - 1

\* a variant that counts the kills of the last 60 seconds, the window of
\* get_team_fight_status
FightStarts_LongWindow(analyzer, game_time) ==
    /\ ~analyzer.team_fight_detected
    /\ game_time - analyzer.last_kill_time < FightQuiet
    /\ count_kills_in_window(analyzer, game_time, 60) >= FightKills

\* the condition of the first branch: a fight starts
FightStarts(analyzer, game_time) ==
    /\ ~analyzer.team_fight_detected
    /\ game_time - analyzer.last_kill_time < FightQuiet
    /\ count_kills_in_window(analyzer, game_time, FightWindow) >= FightKills

\* a variant that ends the fight only after the quiet time has passed twice
FightEnds_Late(analyzer, game_time) ==
    /\ analyzer.team_fight_detected
    /\ game_time - analyzer.last_kill_time >= FightQuiet + FightQuiet

\* the condition of the else-if branch: the fight has ended
FightEnds(analyzer, game_time) ==
    /\ ~(~analyzer.team_fight_detected
         /\ game_time - analyzer.last_kill_time < FightQuiet)
    /\ analyzer.team_fight_detected
    /\ game_time - analyzer.last_kill_time >= FightQuiet

\* a variant that stamps the start again at every update of a fight
DetectTeamFight_Restamps(analyzer, game_time) ==
    IF FightStarts(analyzer, game_time)
    THEN [analyzer EXCEPT !.team_fight_detected = TRUE,
                          !.team_fight_start = game_time]
    ELSE IF FightEnds(analyzer, game_time)
    THEN [analyzer EXCEPT !.team_fight_detected = FALSE]
    ELSE [analyzer EXCEPT !.team_fight_start = game_time]

\* "Detect team fights" in TeamFightAnalyzer::update, on the recorded events
DetectTeamFight(analyzer, game_time) ==
    IF FightStarts(analyzer, game_time)
    THEN [analyzer EXCEPT !.team_fight_detected = TRUE,
                          !.team_fight_start = game_time]
    ELSE IF FightEnds(analyzer, game_time)
    THEN [analyzer EXCEPT !.team_fight_detected = FALSE]
    ELSE analyzer

\* the events of TeamFightAnalyzer::update: the pushes and last_kill_time
\* a variant in which only a death of the player, not a kill, is taken for
\* the time of the last event
RecordEvents_DeathStamped(analyzer, state, last_state) ==
    LET game_time == GameTimeOf(state)
        died == FightDetectsDeath(state, last_state)
    IN  [analyzer EXCEPT
            !.player_deaths = IF died THEN Append(@, game_time) ELSE @,
            !.enemy_deaths = RecordKills(@, state, last_state),
            !.last_kill_time = IF died THEN game_time ELSE @]

RecordEvents(analyzer, state, last_state) ==
    LET game_time == GameTimeOf(state)
        died == FightDetectsDeath(state, last_state)
        killed == NewKills(state, last_state) # {}
    IN  [analyzer EXCEPT
            !.player_deaths = IF died THEN Append(@, game_time) ELSE @,
            !.enemy_deaths = RecordKills(@, state, last_state),
            !.last_kill_time = IF died \/ killed THEN game_time ELSE @]

\* TeamFightAnalyzer::update
\* a variant that looks for a fight before it records the events of the
\* snapshot, so that a fight is noticed one update late
TeamFightAnalyzer_update_DetectsFirst(analyzer, state, last_state) ==
    RecordEvents(DetectTeamFight(analyzer, GameTimeOf(state)), state, last_state)

TeamFightAnalyzer_update(analyzer, state, last_state) ==
    DetectTeamFight(RecordEvents(analyzer, state, last_state), GameTimeOf(state))

\* the number of events an analyzer has recorded
RECURSIVE SumLen(_, _)
SumLen(enemy_deaths, names) ==
    IF names = {} THEN 0
    ELSE LET n == CHOOSE x \in names : TRUE
         IN  Len(enemy_deaths[n]) + SumLen(enemy_deaths, names \ {n})

EventCount(analyzer) ==
    Len(analyzer.player_deaths)
    + SumLen(analyzer.enemy_deaths, DOMAIN analyzer.enemy_deaths)

\* a variant that reports a skirmish from the first kill on
SkirmishSeen_OneKill(analyzer, game_time) ==
    count_kills_in_window(analyzer, game_time, 60) >= 1

\* let kills_in_window = self.count_kills_in_window(game_time, 60);
\* kills_in_window >= 2
SkirmishSeen(analyzer, game_time) ==
    count_kills_in_window(analyzer, game_time, 60) >= 2

\* TeamFightAnalyzer::get_team_fight_status
get_team_fight_status(analyzer, game_time) ==
    IF analyzer.team_fight_detected
    THEN <<Line("TEAM FIGHT IN PROGRESS!", <<>>),
           Line("Started {} seconds ago", <<game_time - analyzer.team_fight_start>>)>>
    ELSE IF SkirmishSeen(analyzer, game_time)
    THEN <<Line("Skirmishes detected - team fight may be developing!", <<>>)>>
    ELSE <<>>

-----------------------------------------------------------------------------
(* i32 arithmetic of display_coaching_insights.  An i32 is handled as two  *)
(* 16-bit limbs so that no intermediate value leaves 32 bits.  A build      *)
(* without overflow checks wraps; a build with them panics.                *)

\* the two's-complement limbs <<high, low>> of the i32 n
Limbs(n) == <<(n \div 65536) % 65536, n % 65536>>

\* the i32 of two limbs
FromLimbs(l) ==
    IF l[1] >= 32768 THEN (l[1] - 65536) * 65536 + l[2] ELSE l[1] * 65536 + l[2]

\* the 32-bit product <<high, low>> of two 16-bit limbs
LimbProduct(a, b) ==
    LET u == (a \div 256) * b
        v == (a % 256) * b
        w == (u % 256) * 256 + v
    IN  <<(u \div 256) + (w \div 65536), w % 65536>>

\* i32::wrapping_sub
WrappingSub(x, y) ==
    LET a == Limbs(x)
        b == Limbs(y)
        low == a[2] - b[2]
    IN  FromLimbs(<<(a[1] - b[1] + (low \div 65536)) % 65536, low % 65536>>)

\* i32::wrapping_add
WrappingAdd(x, y) ==
    LET a == Limbs(x)
        b == Limbs(y)
        low == a[2] + b[2]
    IN  FromLimbs(<<(a[1] + b[1] + (low \div 65536)) % 65536, low % 65536>>)

\* i32::wrapping_mul
WrappingMul(x, y) ==
    LET a == Limbs(x)
        b == Limbs(y)
        low == LimbProduct(a[2], b[2])
        cross == LimbProduct(a[2], b[1])[2] + LimbProduct(a[1], b[2])[2]
    IN  FromLimbs(<<(low[1] + cross) % 65536, low[2]>>)

\* x - y leaves the i32 range
SubOverflows(x, y) ==
    \/ (x >= 0 /\ y < 0 /\ x > 2147483647 + y)
    \/ (x < 0 /\ y > 0 /\ x < (-2147483647 - 1) + y)

\* dx * dx + dy * dy leaves the i32 range; 46340 is the largest i32 whose
\* square is an i32
SquaresOverflow(dx, dy) ==
    \/ Abs(dx) > 46340
    \/ Abs(dy) > 46340
    \/ dx * dx > 2147483647 - dy * dy

-----------------------------------------------------------------------------
(* The snapshot as display_coaching_insights reads it: the fields of the   *)
(* trackers' snapshot and, with them, gold, the hero's buyback cost,        *)
(* health, mana and position, and the abilities.                           *)

\* struct Hero: alive, buyback_cost, health_percent, mana_percent, xpos, ypos
HeroOnMap(alive, buyback_cost, health_percent, mana_percent, xpos, ypos) ==
    [alive |-> alive, buyback_cost |-> buyback_cost,
     health_percent |-> health_percent, mana_percent |-> mana_percent,
     xpos |-> xpos, ypos |-> ypos]

\* struct Player: gpm, xpm, last_hits, team_name, kill_list, gold
PlayerWithGold(gpm, xpm, last_hits, team_name, kill_list, gold) ==
    [gpm |-> gpm, xpm |-> xpm, last_hits |-> last_hits, team_name |-> team_name,
     kill_list |-> kill_list, gold |-> gold]

\* struct Ability: can_cast, passive, ultimate
Ability(can_cast, passive, ultimate) ==
    [can_cast |-> can_cast, passive |-> passive, ultimate |-> ultimate]

\* struct GameState: map, player, hero, abilities, minimap; abilities is the
\* sequence of the values of the HashMap
GameStateWithAbilities(map, player, hero, abilities, minimap) ==
    [map |-> map, player |-> player, hero |-> hero, abilities |-> abilities,
     minimap |-> minimap]

-----------------------------------------------------------------------------
(* assess_team_fight_readiness *)

\* a variant that never takes a point away
ResourceScore_NoPenalty(pct, high, low) ==
    IF IsNone(pct) THEN 0
    ELSE IF pct[1] > high THEN 2
    ELSE IF pct[1] > low THEN 1
    ELSE 0

\* the score of health_percent or mana_percent against its two thresholds
ResourceScore(pct, high, low) ==
    IF IsNone(pct) THEN 0
    ELSE IF pct[1] > high THEN 2
    ELSE IF pct[1] > low THEN 1
    ELSE -1

\* abilities.values().any(|a| a.ultimate.unwrap_or(false) && a.can_cast.unwrap_or(false))
HasUltimateReady(abilities) ==
    \E i \in DOMAIN abilities :
        UnwrapOr(abilities[i].ultimate, FALSE) /\ UnwrapOr(abilities[i].can_cast, FALSE)

\* abilities.values().filter(|a| !a.passive.unwrap_or(true))
\*     .all(|a| a.can_cast.unwrap_or(false))
AllKeyAbilitiesReady(abilities) ==
    \A i \in DOMAIN abilities :
        ~UnwrapOr(abilities[i].passive, TRUE) => UnwrapOr(abilities[i].can_cast, FALSE)

assess_team_fight_readiness(state) ==
    (IF IsNone(state.hero) THEN 0
     ELSE ResourceScore(state.hero[1].health_percent, 80, 50)
          + ResourceScore(state.hero[1].mana_percent, 70, 40))
    + (IF IsNone(state.abilities) THEN 0
       ELSE (IF HasUltimateReady(state.abilities[1]) THEN 2 ELSE 0)
            + (IF AllKeyAbilitiesReady(state.abilities[1]) THEN 1 ELSE 0))

\* the match on readiness_score in display_coaching_insights
ReadinessLine(score) ==
    IF score >= 4 THEN Line("Team fight readiness: Excellent! All systems ready.", <<>>)
    ELSE IF score >= 2
    THEN Line("Team fight readiness: Good. Most resources available.", <<>>)
    ELSE IF score >= 0
    THEN Line("Team fight readiness: Caution advised. Limited resources.", <<>>)
    ELSE Line("Team fight readiness: Not ready. Consider retreating.", <<>>)

-----------------------------------------------------------------------------
(* display_coaching_insights *)

\* i32 remainder: the sign of the dividend
TruncRem(a, b) == a - b * TruncDiv(a, b)

\* println!()
Blank == Line("", <<>>)

\* the hero's position, when the hero, its xpos and its ypos are present
PlayerPosition(state) ==
    IF IsSome(state.hero) /\ IsSome(state.hero[1].xpos) /\ IsSome(state.hero[1].ypos)
    THEN Some(<<state.hero[1].xpos[1], state.hero[1].ypos[1]>>)
    ELSE None

\* computing dx, dy and dx * dx + dy * dy overflows an i32
DistanceOverflows(x, y, player_x, player_y) ==
    \/ SubOverflows(x, player_x)
    \/ SubOverflows(y, player_y)
    \/ SquaresOverflow(x - player_x, y - player_y)

\* ((dx * dx + dy * dy) as f32).sqrt() < 2000.0 for the i32 sum: the square
\* root of a negative sum is NaN, which compares false; below 2^24 the sum
\* is exact in f32 and its root is below 2000.0 exactly when the sum is
\* below 2000 * 2000
WithinRange(sum) == sum >= 0 /\ sum < ProximityRange * ProximityRange

\* `distance < 2000.0` as a build without overflow checks computes it
IsNear(x, y, player_x, player_y) ==
    LET dx == WrappingSub(x, player_x)
        dy == WrappingSub(y, player_y)
    IN  WithinRange(WrappingAdd(WrappingMul(dx, dx), WrappingMul(dy, dy)))

\* the lines of the loop over the predictions; `checked` says whether the
\* build panics on overflow.  panicked: the loop ended in a panic
RECURSIVE PredictionLines(_, _, _)
PredictionLines(predictions, state, checked) ==
    IF predictions = <<>> THEN [lines |-> <<>>, panicked |-> FALSE]
    ELSE LET hero_name == Head(predictions)[1]
             x == Head(predictions)[2][1]
             y == Head(predictions)[2][2]
             likely == Line("{} likely at ({}, {})", <<hero_name, x, y>>)
             player == PlayerPosition(state)
         IN  IF IsSome(player) /\ checked
                /\ DistanceOverflows(x, y, player[1][1], player[1][2])
             THEN [lines |-> <<likely>>, panicked |-> TRUE]
             ELSE LET rest == PredictionLines(Tail(predictions), state, checked)
                      warning ==
                          IF IsSome(player) /\ IsNear(x, y, player[1][1], player[1][2])
                          THEN <<Line("WARNING: This enemy may be very close to you!",
                                      <<>>)>>
                          ELSE <<>>
                  IN  [lines |-> <<likely>> \o warning \o rest.lines,
                       panicked |-> rest.panicked]

\* "Team fight status"
FightSection(analyzer, game_time) ==
    LET team_fight_status == get_team_fight_status(analyzer, game_time)
    IN  IF team_fight_status # <<>>
        THEN <<Line("TEAM FIGHT STATUS", <<>>)>> \o team_fight_status \o <<Blank>>
        ELSE <<>>

\* "Enemy position tracking"
EnemySection(state, tracker, game_time, order, checked) ==
    LET enemy_movements == get_movement_descriptions(tracker, game_time, order)
        predictions == predict_movements(tracker, game_time, order)
        predicted == PredictionLines(predictions, state, checked)
    IN  IF enemy_movements = <<>> THEN [lines |-> <<>>, panicked |-> FALSE]
        ELSE IF predictions = <<>>
        THEN [lines |-> <<Line("ENEMY TRACKING", <<>>)>> \o enemy_movements \o <<Blank>>,
              panicked |-> FALSE]
        ELSE [lines |-> <<Line("ENEMY TRACKING", <<>>)>> \o enemy_movements
                        \o <<Blank, Line("Predicted movements:", <<>>)>>
                        \o predicted.lines
                        \o (IF predicted.panicked THEN <<>> ELSE <<Blank>>),
              panicked |-> predicted.panicked]

\* "Performance metrics"
PerformanceSection(perf, game_time) ==
    LET performance_metrics == display_metrics(perf, game_time)
    IN  IF performance_metrics # <<>>
        THEN <<Line("PERFORMANCE METRICS", <<>>)>> \o performance_metrics \o <<Blank>>
        ELSE <<>>

\* the block under `if minutes < 10`
EarlyGame(state, minutes, seconds) ==
    <<Line("EARLY GAME COACHING", <<>>)>>
    \o (IF seconds >= 45 /\ seconds <= 48
        THEN <<Line("Stack camps now! Pull at X:53.", <<>>)>> ELSE <<>>)
    \o (IF minutes > 0 /\ minutes % 2 = 0 /\ seconds >= 55
        THEN <<Line("Water runes spawning in a few seconds!", <<>>)>>
        ELSE IF minutes >= 4 /\ minutes % 5 = 4 /\ seconds >= 55
        THEN <<Line("Power runes spawning in a few seconds!", <<>>)>>
        ELSE <<>>)
    \o (IF IsSome(state.player) /\ IsSome(state.player[1].last_hits)
        THEN LET last_hits == state.player[1].last_hits[1]
                 expected_cs == minutes * 10
             IN  IF last_hits < TruncDiv(expected_cs, 2)
                 THEN <<Line("Your last hits are low ({}). Focus more on last hitting.",
                             <<last_hits>>)>>
                 ELSE IF last_hits >= expected_cs
                 THEN <<Line("Good job on last hitting! You have {} CS.",
                             <<last_hits>>)>>
                 ELSE <<>>
        ELSE <<>>)

\* the block under `else if minutes < 25`
MidGame(state, minutes, seconds) ==
    <<Line("MID GAME COACHING", <<>>)>>
    \o (IF IsSome(state.player) /\ IsSome(state.player[1].gold)
        THEN LET gold == state.player[1].gold[1]
             IN  IF gold >= 4000
                 THEN <<Line("You have sufficient gold for major items (BKB, Blink, etc.)",
                             <<>>)>>
                 ELSE IF gold >= 2000
                 THEN <<Line("You have gold for mid-tier items (Force Staff, Eul's, etc.)",
                             <<>>)>>
                 ELSE IF gold >= 1000
                 THEN <<Line("Consider purchasing support/utility items", <<>>)>>
                 ELSE <<>>
        ELSE <<>>)
    \o (IF minutes % 7 = 0 /\ seconds < 10
        THEN <<Line("New observer wards are available in shop", <<>>)>> ELSE <<>>)
    \o (IF minutes >= 10
        THEN <<Line("Roshan is available. Consider checking with team coordination.",
                    <<>>)>>
        ELSE <<>>)

\* the block under the final `else`
LateGame(state) ==
    <<Line("LATE GAME COACHING", <<>>)>>
    \o (IF /\ IsSome(state.hero)
           /\ IsSome(state.player)
           /\ IsSome(state.hero[1].buyback_cost)
           /\ IsSome(state.player[1].gold)
        THEN LET buyback_cost == state.hero[1].buyback_cost[1]
                 gold == state.player[1].gold[1]
             IN  IF gold < buyback_cost
                 THEN <<Line("You don't have buyback gold! Need {} more gold.",
                             <<buyback_cost - gold>>)>>
                 ELSE <<Line("You have buyback available ({} gold).", <<buyback_cost>>)>>
        ELSE <<>>)
    \o <<ReadinessLine(assess_team_fight_readiness(state))>>

\* a variant whose early game lasts through minute 10
PhaseBlock_LongEarly(state, minutes, seconds) ==
    IF minutes <= 10 THEN EarlyGame(state, minutes, seconds)
    ELSE IF minutes < 25 THEN MidGame(state, minutes, seconds)
    ELSE LateGame(state)

\* "Phase-specific insights"
PhaseBlock(state, minutes, seconds) ==
    IF minutes < 10 THEN EarlyGame(state, minutes, seconds)
    ELSE IF minutes < 25 THEN MidGame(state, minutes, seconds)
    ELSE LateGame(state)

\* the order in which display_coaching_insights prints its sections
Sections(fight, enemy, performance, phase) == fight \o enemy \o performance \o phase

\* display_coaching_insights: the lines it prints, and whether it ended in a
\* panic; `order` is the order in which the loops meet the keys of
\* tracker.positions
display_coaching_insights(state, game_time, tracker, perf, analyzer, order, checked) ==
    LET minutes == TruncDiv(game_time, 60)
        seconds == TruncRem(game_time, 60)
        enemy == EnemySection(state, tracker, game_time, order, checked)
        head == <<Line("COACH INSIGHTS", <<>>), Line("--------------", <<>>)>>
    IN  IF enemy.panicked
        THEN [lines |-> head \o Sections(FightSection(analyzer, game_time),
                                         enemy.lines, <<>>, <<>>),
              panicked |-> TRUE]
        ELSE [lines |-> head
                        \o Sections(FightSection(analyzer, game_time), enemy.lines,
                                    PerformanceSection(perf, game_time),
                                    PhaseBlock(state, minutes, seconds) \o <<Blank>>),
              panicked |-> FALSE]

-----------------------------------------------------------------------------
(* Bounds of the model *)

\* requests one run of the coach endpoint receives
MaxSteps == 4

\* requests one run of the server.rs endpoint receives
MaxRequests == 3

\* handlers of the server.rs endpoint that may run at once
NumHandlers == 2

-----------------------------------------------------------------------------
(* Inputs *)

\* victim ids of a kill list; "victimid_" is the token EnemyName removes
Victim1 == <<"victimid_", "1">>

Victim2 == <<"victimid_", "2">>

Bare1 == <<"1">>

\* hero names of minimap objects
AxeName == <<"npc_dota_hero_", "axe">>

AxeShort == <<"axe">>

LinaName == <<"npc_dota_hero_", "lina">>

\* a player of team radiant with the given rates and kills of Victim1
RadiantPlayer(gpm, kills) ==
    Player(Some(gpm), Some(gpm + 50), Some(kills * 10), Some("radiant"),
           Some([v \in {Victim1} |-> kills]))

\* an enemy hero icon of team dire (team id 3)
EnemyIcon(name, x, y) == MinimapObject("minimap_enemyicon", Some(name), 3, x, y)

\* complete snapshots: clock, alive flag, a player with gpm and a kill list
\* that have risen by the later clock, one enemy
FullStates ==
    {GameState(Some(Map(Some(10 * k))), Some(RadiantPlayer(200 + 100 * k, k - 1)),
               Some(Hero(Some(a))), Some(<<EnemyIcon(AxeName, 10 * k, 0)>>)) :
        k \in {1, 2}, a \in BOOLEAN}

\* snapshots that miss one part
PartialStates ==
    {GameState(None, Some(RadiantPlayer(300, 0)), Some(Hero(Some(FALSE))),
               Some(<<EnemyIcon(AxeName, 5, 5)>>)),
     GameState(Some(Map(None)), Some(RadiantPlayer(400, 1)), Some(Hero(Some(TRUE))),
               Some(<<EnemyIcon(AxeName, 5, 5)>>)),
     GameState(Some(Map(Some(20))), None, Some(Hero(Some(FALSE))),
               Some(<<EnemyIcon(AxeName, 5, 5)>>)),
     GameState(Some(Map(Some(20))), Some(RadiantPlayer(400, 1)), None,
               Some(<<EnemyIcon(AxeName, 5, 5)>>)),
     GameState(Some(Map(Some(20))), Some(RadiantPlayer(400, 1)), Some(Hero(None)),
               Some(<<EnemyIcon(AxeName, 5, 5)>>)),
     GameState(Some(Map(Some(20))), Some(RadiantPlayer(400, 1)), Some(Hero(Some(FALSE))),
               None)}

\* what serde_json::from_value::<GameState> yields for the requests of the model
IngestStates == FullStates \cup PartialStates

\* the snapshots the server.rs endpoint receives
ServerStates ==
    {GameState(Some(Map(Some(t))), None, None, None) : t \in {10, 20}}

Handlers == 1..NumHandlers

NoOutput == [op |-> "none", at |-> 0, lines |-> <<>>]

\* the three trackers of main, by the name of their mutex
Trackers == {"enemy_tracker", "perf_tracker", "team_fight_analyzer"}

\* no tracker has been updated yet
NothingProcessed == [tracker \in Trackers |-> <<>>]

\* HashMap::new() of App::new
NoEnemyHeroes == [n \in {} |-> <<>>]

-----------------------------------------------------------------------------
(* The state of a fresh process: main of coach.rs up to the start of the    *)
(* server (coach.rs:667-689), and start_server with App::new of the         *)
(* terminal app (main.rs, app.rs:25-32).                                    *)

InitCoach ==
    /\ game_state = None
    /\ last_game_state = None
    /\ enemy_tracker = EnemyPositionTracker_new
    /\ perf_tracker = HeroPerformanceTracker_new
    /\ team_fight_analyzer = TeamFightAnalyzer_new
    /\ arg_state = None
    /\ arg_last = None
    /\ steps = 0
    /\ pc = [h \in Handlers |-> "idle"]
    /\ current_gs = [h \in Handlers |-> None]
    /\ req = [h \in Handlers |-> None]
    /\ stored = <<>>
    /\ output = NoOutput
    /\ running = TRUE
    /\ channel = <<>>
    /\ processed = NothingProcessed
    /\ enemy_heroes = NoEnemyHeroes
    /\ app_game_time = 0
    /\ app_pc = "update"

-----------------------------------------------------------------------------
(* The GSI endpoint of the terminal app (server.rs:17-48).  warp runs the   *)
(* closure of every request on the runtime's worker threads; each `{ }`    *)
(* block is one lock scope, and no lock is held between two of them.       *)

\* Ok(state): a request arrives at an idle handler
server_accept(h, state) ==
    /\ pc[h] = "idle"
    /\ steps < MaxRequests
    /\ steps' = steps + 1
    /\ req' = [req EXCEPT ![h] = Some(state)]
    /\ pc' = [pc EXCEPT ![h] = "read_current"]
    /\ UNCHANGED <<game_state, last_game_state, enemy_tracker, perf_tracker,
                   team_fight_analyzer, arg_state, arg_last, current_gs, stored,
                   output, running, channel, processed,
                   enemy_heroes, app_game_time, app_pc>>

\* Err(e): the payload is no GameState
server_reject(h) ==
    /\ pc[h] = "idle"
    /\ steps < MaxRequests
    /\ steps' = steps + 1
    /\ UNCHANGED <<game_state, last_game_state, enemy_tracker, perf_tracker,
                   team_fight_analyzer, arg_state, arg_last, pc, current_gs, req,
                   stored, output, running, channel, processed,
                   enemy_heroes, app_game_time, app_pc>>

\* let current_gs = { let gs = game_state_clone.lock().unwrap(); gs.clone() };
server_read_current(h) ==
    /\ pc[h] = "read_current"
    /\ current_gs' = [current_gs EXCEPT ![h] = game_state]
    /\ pc' = [pc EXCEPT ![h] = "store_last"]
    /\ UNCHANGED <<game_state, last_game_state, enemy_tracker, perf_tracker,
                   team_fight_analyzer, arg_state, arg_last, steps, req, stored,
                   output, running, channel, processed,
                   enemy_heroes, app_game_time, app_pc>>

\* a variant that stores the new snapshot as the last one
server_store_last_New(h) ==
    /\ pc[h] = "store_last"
    /\ last_game_state' = req[h]
    /\ pc' = [pc EXCEPT ![h] = "store_current"]
    /\ UNCHANGED <<game_state, enemy_tracker, perf_tracker, team_fight_analyzer,
                   arg_state, arg_last, steps, current_gs, req, stored, output,
                   running, channel, processed,
                   enemy_heroes, app_game_time, app_pc>>

\* { let mut last_gs = last_game_state_clone.lock().unwrap(); *last_gs = current_gs; }
server_store_last(h) ==
    /\ pc[h] = "store_last"
    /\ last_game_state' = current_gs[h]
    /\ pc' = [pc EXCEPT ![h] = "store_current"]
    /\ UNCHANGED <<game_state, enemy_tracker, perf_tracker, team_fight_analyzer,
                   arg_state, arg_last, steps, current_gs, req, stored, output,
                   running, channel, processed,
                   enemy_heroes, app_game_time, app_pc>>

\* { let mut gs = game_state_clone.lock().unwrap(); *gs = Some(state); }
server_store_current(h) ==
    /\ pc[h] = "store_current"
    /\ game_state' = req[h]
    /\ stored' = Append(stored, req[h][1])
    /\ pc' = [pc EXCEPT ![h] = "idle"]
    /\ current_gs' = [current_gs EXCEPT ![h] = None]
    /\ req' = [req EXCEPT ![h] = None]
    /\ UNCHANGED <<last_game_state, enemy_tracker, perf_tracker,
                   team_fight_analyzer, arg_state, arg_last, steps, output,
                   running, channel, processed,
                   enemy_heroes, app_game_time, app_pc>>

NextServer ==
    \E h \in Handlers :
        \/ \E state \in ServerStates : server_accept(h, state)
        \/ server_reject(h)
        \/ server_read_current(h)
        \/ server_store_last(h)
        \/ server_store_current(h)

SpecServer == InitCoach /\ [][NextServer]_vars

\* the handlers other than h are between two requests
OthersIdle(h) == \A g \in Handlers \ {h} : pc[g] = "idle"

\* the same endpoint when the requests do not overlap: a request is accepted
\* only after the one before it has left the closure
NextServerSequential ==
    \E h \in Handlers :
        /\ OthersIdle(h)
        /\ \/ \E state \in ServerStates : server_accept(h, state)
           \/ server_reject(h)
           \/ server_read_current(h)
           \/ server_store_last(h)
           \/ server_store_current(h)

SpecServerSequential == InitCoach /\ [][NextServerSequential]_vars

-----------------------------------------------------------------------------
(* The Ok arm of the coach endpoint, one statement at a time                *)
(* (coach.rs:697-729).  A MutexGuard bound by `let` lives to the end of the *)
(* block it is declared in: last_gs, gs and debug to the end of the arm,    *)
(* the guard of a tracker to the end of its own `{ }` block.                *)

\* the snapshots the requests of this endpoint carry
CoachStates ==
    {GameState(Some(Map(Some(t))), Some(RadiantPlayer(300 + 100 * k, k)),
               Some(Hero(Some(TRUE))), Some(<<EnemyIcon(AxeName, t, 0)>>)) :
        t \in {10, 20}, k \in {0, 1}}

\* the statements of the arm at which last_gs (line 699) is alive
HoldsLastGs == {"lock_gs", "save", "enemy", "perf", "team_fight", "rotate", "set"}

\* the statements of the arm at which gs (line 702) is alive
HoldsGs == {"save", "enemy", "perf", "team_fight", "rotate", "set"}

\* the statements of the arm at which debug (line 705) is alive
HoldsDebug == {"enemy", "perf", "team_fight", "rotate", "set"}

\* the mutexes whose guard handler h holds before its next statement
Held(h) ==
    (IF pc[h] \in HoldsLastGs THEN {"last_game_state"} ELSE {})
        \cup (IF pc[h] \in HoldsGs THEN {"game_state"} ELSE {})
        \cup (IF pc[h] \in HoldsDebug THEN {"debug_mode"} ELSE {})

\* Mutex::lock returns once no other handler holds a guard of the mutex
Free(m, h) == \A g \in Handlers \ {h} : m \notin Held(g)

\* Ok(state): a request arrives at an idle handler
coach_accept(h, state) ==
    /\ pc[h] = "idle"
    /\ steps' = steps + 1
    /\ req' = [req EXCEPT ![h] = Some(state)]
    /\ pc' = [pc EXCEPT ![h] = "lock_last_gs"]
    /\ UNCHANGED <<game_state, last_game_state, enemy_tracker, perf_tracker,
                   team_fight_analyzer, arg_state, arg_last, current_gs, stored,
                   output, running, channel, processed,
                   enemy_heroes, app_game_time, app_pc>>

\* a variant in which a payload that is no GameState clears the current one
coach_reject_Clears(h) ==
    /\ pc[h] = "idle"
    /\ steps' = steps + 1
    /\ game_state' = None
    /\ UNCHANGED <<last_game_state, enemy_tracker, perf_tracker,
                   team_fight_analyzer, arg_state, arg_last, pc, current_gs, req,
                   stored, output, running, channel, processed,
                   enemy_heroes, app_game_time, app_pc>>

\* Err(e): the payload is no GameState
coach_reject(h) ==
    /\ pc[h] = "idle"
    /\ steps' = steps + 1
    /\ UNCHANGED <<game_state, last_game_state, enemy_tracker, perf_tracker,
                   team_fight_analyzer, arg_state, arg_last, pc, current_gs, req,
                   stored, output, running, channel, processed,
                   enemy_heroes, app_game_time, app_pc>>

\* let mut last_gs = last_game_state_clone.lock().unwrap();
coach_lock_last_gs(h) ==
    /\ pc[h] = "lock_last_gs"
    /\ Free("last_game_state", h)
    /\ pc' = [pc EXCEPT ![h] = "lock_gs"]
    /\ UNCHANGED <<game_state, last_game_state, enemy_tracker, perf_tracker,
                   team_fight_analyzer, arg_state, arg_last, steps, current_gs,
                   req, stored, output, running, channel, processed,
                   enemy_heroes, app_game_time, app_pc>>

\* let mut gs = game_state_clone.lock().unwrap();
coach_lock_gs(h) ==
    /\ pc[h] = "lock_gs"
    /\ Free("game_state", h)
    /\ pc' = [pc EXCEPT ![h] = "save"]
    /\ UNCHANGED <<game_state, last_game_state, enemy_tracker, perf_tracker,
                   team_fight_analyzer, arg_state, arg_last, steps, current_gs,
                   req, stored, output, running, channel, processed,
                   enemy_heroes, app_game_time, app_pc>>

\* let mut debug = debug_mode_clone.lock().unwrap(); debug.save_game_state(&state);
\* main builds DebugMode::new(false), so save_game_state returns at once
coach_save_game_state(h) ==
    /\ pc[h] = "save"
    /\ Free("debug_mode", h)
    /\ pc' = [pc EXCEPT ![h] = "enemy"]
    /\ UNCHANGED <<game_state, last_game_state, enemy_tracker, perf_tracker,
                   team_fight_analyzer, arg_state, arg_last, steps, current_gs,
                   req, stored, output, running, channel, processed,
                   enemy_heroes, app_game_time, app_pc>>

\* { let mut tracker = enemy_tracker_clone.lock().unwrap(); tracker.update(&state); }
coach_enemy_update(h) ==
    /\ pc[h] = "enemy"
    /\ enemy_tracker' = EnemyPositionTracker_update(enemy_tracker, req[h][1])
    /\ pc' = [pc EXCEPT ![h] = "perf"]
    /\ UNCHANGED <<game_state, last_game_state, perf_tracker, team_fight_analyzer,
                   arg_state, arg_last, steps, current_gs, req, stored, output,
                   running, channel, processed,
                   enemy_heroes, app_game_time, app_pc>>

\* { let mut perf = perf_tracker_clone.lock().unwrap(); perf.update(&state, &last_gs); }
coach_perf_update(h) ==
    /\ pc[h] = "perf"
    /\ perf_tracker' =
           HeroPerformanceTracker_update(perf_tracker, req[h][1], last_game_state)
    /\ pc' = [pc EXCEPT ![h] = "team_fight"]
    /\ UNCHANGED <<game_state, last_game_state, enemy_tracker, team_fight_analyzer,
                   arg_state, arg_last, steps, current_gs, req, stored, output,
                   running, channel, processed,
                   enemy_heroes, app_game_time, app_pc>>

\* { let mut team_fight = ...lock().unwrap(); team_fight.update(&state, &last_gs); }
coach_team_fight_update(h) ==
    /\ pc[h] = "team_fight"
    /\ team_fight_analyzer' =
           TeamFightAnalyzer_update(team_fight_analyzer, req[h][1], last_game_state)
    /\ arg_state' = req[h]
    /\ arg_last' = last_game_state
    /\ pc' = [pc EXCEPT ![h] = "rotate"]
    /\ UNCHANGED <<game_state, last_game_state, enemy_tracker, perf_tracker, steps,
                   current_gs, req, stored, output, running, channel, processed,
                   enemy_heroes, app_game_time, app_pc>>

\* *last_gs = gs.clone();
coach_rotate(h) ==
    /\ pc[h] = "rotate"
    /\ last_game_state' = game_state
    /\ pc' = [pc EXCEPT ![h] = "set"]
    /\ UNCHANGED <<game_state, enemy_tracker, perf_tracker, team_fight_analyzer,
                   arg_state, arg_last, steps, current_gs, req, stored, output,
                   running, channel, processed,
                   enemy_heroes, app_game_time, app_pc>>

\* *gs = Some(state); and the end of the arm, where debug, gs and last_gs drop
coach_set_current(h) ==
    /\ pc[h] = "set"
    /\ game_state' = req[h]
    /\ stored' = Append(stored, req[h][1])
    /\ pc' = [pc EXCEPT ![h] = "idle"]
    /\ req' = [req EXCEPT ![h] = None]
    /\ UNCHANGED <<last_game_state, enemy_tracker, perf_tracker,
                   team_fight_analyzer, arg_state, arg_last, steps, current_gs,
                   output, running, channel, processed,
                   enemy_heroes, app_game_time, app_pc>>

NextCoachLocks ==
    \E h \in Handlers :
        \/ steps < MaxRequests /\ \E state \in CoachStates : coach_accept(h, state)
        \/ steps < MaxRequests /\ coach_reject(h)
        \/ coach_lock_last_gs(h)
        \/ coach_lock_gs(h)
        \/ coach_save_game_state(h)
        \/ coach_enemy_update(h)
        \/ coach_perf_update(h)
        \/ coach_team_fight_update(h)
        \/ coach_rotate(h)
        \/ coach_set_current(h)

SpecCoachLocks == InitCoach /\ [][NextCoachLocks]_vars

-----------------------------------------------------------------------------
(* assess_team_fight_readiness on its own: any hero and any abilities *)

\* health_percent of the hero, around the thresholds 50 and 80
HealthValues == {None, Some(0), Some(50), Some(51), Some(80), Some(81)}

\* mana_percent of the hero, around the thresholds 40 and 70
ManaValues == {None, Some(40), Some(41), Some(70), Some(71)}

\* the values of state.abilities
AbilitySets ==
    {None,
     Some(<<>>),
     Some(<<Ability(None, None, None)>>),
     Some(<<Ability(Some(TRUE), Some(FALSE), Some(TRUE))>>),
     Some(<<Ability(Some(FALSE), Some(FALSE), Some(TRUE))>>),
     Some(<<Ability(Some(TRUE), Some(FALSE), Some(FALSE))>>),
     Some(<<Ability(Some(FALSE), Some(FALSE), None)>>),
     Some(<<Ability(Some(FALSE), Some(TRUE), Some(FALSE)),
            Ability(Some(TRUE), Some(TRUE), Some(TRUE))>>),
     Some(<<Ability(Some(TRUE), Some(FALSE), Some(TRUE)),
            Ability(None, Some(FALSE), Some(FALSE))>>)}

\* snapshots of the late game with every hero and every abilities
ReadinessStates ==
    {GameStateWithAbilities(Some(Map(Some(1500))), None,
                            Some(HeroOnMap(Some(TRUE), None, h, m, None, None)),
                            a, None) :
        h \in HealthValues, m \in ManaValues, a \in AbilitySets}
    \cup {GameStateWithAbilities(Some(Map(Some(1500))), None, None, a, None) :
              a \in AbilitySets}

\* let readiness_score = assess_team_fight_readiness(state); match readiness_score
readiness(state) ==
    LET readiness_score == assess_team_fight_readiness(state)
    IN
    /\ output.op = "none"
    /\ output' = [op |-> "assess_team_fight_readiness", at |-> readiness_score,
                  lines |-> <<ReadinessLine(readiness_score)>>]
    /\ UNCHANGED <<game_state, last_game_state, enemy_tracker, perf_tracker,
                   team_fight_analyzer, arg_state, arg_last, steps, pc, current_gs,
                   req, stored, running, channel, processed,
                   enemy_heroes, app_game_time, app_pc>>

\* any snapshot of ReadinessStates, not yet assessed
InitReadiness ==
    /\ game_state = None
    /\ last_game_state = None
    /\ enemy_tracker = EnemyPositionTracker_new
    /\ perf_tracker = HeroPerformanceTracker_new
    /\ team_fight_analyzer = TeamFightAnalyzer_new
    /\ arg_state \in {Some(state) : state \in ReadinessStates}
    /\ arg_last = None
    /\ steps = 0
    /\ pc = [h \in Handlers |-> "idle"]
    /\ current_gs = [h \in Handlers |-> None]
    /\ req = [h \in Handlers |-> None]
    /\ stored = <<>>
    /\ output = NoOutput
    /\ running = TRUE
    /\ channel = <<>>
    /\ processed = NothingProcessed
    /\ enemy_heroes = NoEnemyHeroes
    /\ app_game_time = 0
    /\ app_pc = "update"

NextReadiness == readiness(arg_state[1])

SpecReadiness == InitReadiness /\ [][NextReadiness]_vars

-----------------------------------------------------------------------------
(* TeamFightAnalyzer::update on its own: any (state, last_state) pair *)

\* update calls of one run of the analyzer
MaxDetectorUpdates == 4

\* game clocks of the snapshots that may carry an event
EventClocks == {5, 20, 36}

\* further game clocks, of snapshots that carry no event
QuietClocks == {34, 35, 36}

\* the hero of last_state and of state: a hero that stays alive, dies, stays
\* dead or is alive again, a flag or a hero that is absent before, and a flag
\* or a hero that is absent now
HeroPairs ==
    {<<Some(Hero(Some(TRUE))), Some(Hero(Some(TRUE)))>>,
     <<Some(Hero(Some(TRUE))), Some(Hero(Some(FALSE)))>>,
     <<Some(Hero(Some(FALSE))), Some(Hero(Some(FALSE)))>>,
     <<Some(Hero(Some(FALSE))), Some(Hero(Some(TRUE)))>>,
     <<Some(Hero(None)), Some(Hero(Some(FALSE)))>>,
     <<None, Some(Hero(Some(FALSE)))>>,
     <<Some(Hero(Some(TRUE))), Some(Hero(None))>>,
     <<Some(Hero(Some(TRUE))), None>>}

\* the kill list of last_state and of state
KillPairs ==
    {<<Some([v \in {Victim1} |-> 1]), Some([v \in {Victim1} |-> 1])>>,
     <<Some([v \in {Victim1} |-> 1]), Some([v \in {Victim1} |-> 2])>>,
     <<Some([v \in {Victim1} |-> 1]), Some([v \in {Victim1} |-> 3])>>,
     <<Some([v \in {Victim1} |-> 1]),
       Some([v \in {Victim1, Victim2, Bare1} |-> IF v = Victim1 THEN 2 ELSE 1])>>,
     <<Some([v \in {Victim1} |-> 2]), Some([v \in {Victim1} |-> 1])>>,
     <<None, Some([v \in {Victim1} |-> 1])>>}

\* a snapshot of the analyzer: clock, hero and kill list
DetectorState(t, hero, kill_list) ==
    GameState(Some(Map(Some(t))), Some(Player(None, None, None, None, kill_list)),
              hero, None)

\* the (state, last_state) pairs at one clock: every hero pair with an
\* unchanged kill list, every kill pair with a living hero, a death together
\* with a kill, and a first call that has no last_state
CallsAt(t) ==
    {<<DetectorState(t, h[2], Some([v \in {Victim1} |-> 1])),
       Some(DetectorState(5, h[1], Some([v \in {Victim1} |-> 1])))>> : h \in HeroPairs}
    \cup {<<DetectorState(t, Some(Hero(Some(TRUE))), k[2]),
            Some(DetectorState(5, Some(Hero(Some(TRUE))), k[1]))>> : k \in KillPairs}
    \cup {<<DetectorState(t, Some(Hero(Some(FALSE))), Some([v \in {Victim1} |-> 2])),
            Some(DetectorState(5, Some(Hero(Some(TRUE))), Some([v \in {Victim1} |-> 1])))>>,
          <<DetectorState(t, Some(Hero(Some(FALSE))), Some([v \in {Victim1} |-> 1])),
            None>>}

\* pairs without an event: the hero stays alive, no counter rises
QuietAt(t) ==
    {<<DetectorState(t, Some(Hero(Some(TRUE))), Some([v \in {Victim1} |-> k])),
       Some(DetectorState(5, Some(Hero(Some(TRUE))), Some([v \in {Victim1} |-> 2])))>> :
        k \in {1, 2}}

DetectorCalls ==
    UNION {CallsAt(t) : t \in EventClocks} \cup UNION {QuietAt(t) : t \in QuietClocks}

\* team_fight.update(&state, &last_state)
team_fight_update(state, last_state) ==
    /\ steps < MaxDetectorUpdates
    /\ steps' = steps + 1
    /\ team_fight_analyzer' =
           TeamFightAnalyzer_update(team_fight_analyzer, state, last_state)
    /\ arg_state' = Some(state)
    /\ arg_last' = last_state
    /\ UNCHANGED <<game_state, last_game_state, enemy_tracker, perf_tracker,
                   pc, current_gs, req, stored, output, running, channel, processed,
                   enemy_heroes, app_game_time, app_pc>>

NextDetector == \E call \in DetectorCalls : team_fight_update(call[1], call[2])

SpecDetector == InitCoach /\ [][NextDetector]_vars

-----------------------------------------------------------------------------
(* TeamFightAnalyzer with its query: update and get_team_fight_status *)

\* update calls of one run
MaxFightUpdates == 3

\* game clocks of the snapshots
FightClocks == {5, 20, 35}

\* game_time of a query
StatusTimes == {5, 20, 36, 65, 66, 95, 96}

\* the (state, last_state) pairs at one clock: no event, one kill, and a death
\* together with kills of three victims
FightCallsAt(t) ==
    {<<DetectorState(t, Some(Hero(Some(TRUE))), Some([v \in {Victim1} |-> 1])),
       Some(DetectorState(5, Some(Hero(Some(TRUE))), Some([v \in {Victim1} |-> 1])))>>,
     <<DetectorState(t, Some(Hero(Some(TRUE))), Some([v \in {Victim1} |-> 2])),
       Some(DetectorState(5, Some(Hero(Some(TRUE))), Some([v \in {Victim1} |-> 1])))>>,
     <<DetectorState(t, Some(Hero(Some(FALSE))),
                     Some([v \in {Victim1, Victim2, Bare1} |-> IF v = Victim1 THEN 2 ELSE 1])),
       Some(DetectorState(5, Some(Hero(Some(TRUE))), Some([v \in {Victim1} |-> 1])))>>}

FightCalls == UNION {FightCallsAt(t) : t \in FightClocks}

\* team_fight.update(&state, &last_state)
fight_update(state, last_state) ==
    /\ steps < MaxFightUpdates
    /\ steps' = steps + 1
    /\ team_fight_analyzer' =
           TeamFightAnalyzer_update(team_fight_analyzer, state, last_state)
    /\ arg_state' = Some(state)
    /\ arg_last' = last_state
    /\ output' = NoOutput
    /\ UNCHANGED <<game_state, last_game_state, enemy_tracker, perf_tracker, pc,
                   current_gs, req, stored, running, channel, processed,
                   enemy_heroes, app_game_time, app_pc>>

\* team_fight.get_team_fight_status(game_time)
fight_get_team_fight_status(game_time) ==
    /\ output' = [op |-> "get_team_fight_status", at |-> game_time,
                  lines |-> get_team_fight_status(team_fight_analyzer, game_time)]
    /\ UNCHANGED <<game_state, last_game_state, enemy_tracker, perf_tracker,
                   team_fight_analyzer, arg_state, arg_last, steps, pc, current_gs,
                   req, stored, running, channel, processed,
                   enemy_heroes, app_game_time, app_pc>>

NextFight ==
    \/ \E call \in FightCalls : fight_update(call[1], call[2])
    \/ \E game_time \in StatusTimes : fight_get_team_fight_status(game_time)

SpecFight == InitCoach /\ [][NextFight]_vars

-----------------------------------------------------------------------------
(* EnemyPositionTracker::update on its own *)

\* update calls of one run of the tracker
MaxUpdates == 3

\* updates that filled the history of a tracker that runs for a while
WarmUpdates == 99

\* the snapshot of the k-th update of the warm-up: clock k, Axe at (k, 0)
WarmState(k) ==
    GameState(Some(Map(Some(k))), Some(Player(None, None, None, Some("radiant"), None)),
              None, Some(<<EnemyIcon(AxeName, k, 0)>>))

\* the tracker after the updates lo..hi of the warm-up (comparing `half`
\* makes TLC compute it before the second half is applied)
RECURSIVE WarmFrom(_, _, _)
WarmFrom(tracker, lo, hi) ==
    IF lo > hi THEN tracker
    ELSE IF lo = hi THEN EnemyPositionTracker_update(tracker, WarmState(lo))
    ELSE LET mid == (lo + hi) \div 2
             half == WarmFrom(tracker, lo, mid)
         IN  IF half = half THEN WarmFrom(half, mid + 1, hi) ELSE tracker

\* the tracker after k updates of the warm-up
WarmTracker(k) == WarmFrom(EnemyPositionTracker_new, 1, k)

\* minimap objects: two spellings of one hero on team 3, a hero on team 2,
\* another marker, an icon without a name
Axe3 == EnemyIcon(AxeName, 10, 0)

AxeAlias3 == EnemyIcon(AxeShort, 0, 10)

Lina2 == MinimapObject("minimap_enemyicon", Some(LinaName), 2, 7, 7)

Circle3 == MinimapObject("minimap_plaincircle", Some(LinaName), 3, 3, 3)

Nameless3 == MinimapObject("minimap_enemyicon", None, 3, 4, 4)

TrackerObjects == {Axe3, AxeAlias3, Lina2, Circle3, Nameless3}

\* minimaps of at most two objects, in iteration order
Minimaps ==
    {<<>>} \cup {<<a>> : a \in TrackerObjects}
    \cup {<<a, b>> : a \in TrackerObjects, b \in TrackerObjects}

TeamPlayer(team_name) == Player(None, None, None, team_name, None)

\* the snapshots of the calls, given the tracker's last_game_time: newer
\* snapshots of a radiant player with every minimap, stale or clockless ones,
\* other teams, and a snapshot without a minimap
TrackerStates(last) ==
    {GameState(Some(Map(Some(last + 1))), Some(TeamPlayer(Some("Radiant"))), None, Some(m)) :
        m \in Minimaps}
    \cup {GameState(c, Some(TeamPlayer(Some("radiant"))), None, Some(m)) :
        c \in {None, Some(Map(None)), Some(Map(Some(last - 1))), Some(Map(Some(last)))},
        m \in {<<Axe3>>, <<Axe3, AxeAlias3>>}}
    \cup {GameState(Some(Map(Some(last + 1))), p, None, Some(<<Axe3, Lina2>>)) :
        p \in {None, Some(TeamPlayer(None)), Some(TeamPlayer(Some("dire")))}}
    \cup {GameState(Some(Map(Some(last + 1))), Some(TeamPlayer(Some("radiant"))), None, None)}

\* tracker.update(&state)
enemy_tracker_update(state) ==
    /\ steps < MaxUpdates
    /\ steps' = steps + 1
    /\ enemy_tracker' = EnemyPositionTracker_update(enemy_tracker, state)
    /\ arg_state' = Some(state)
    /\ UNCHANGED <<game_state, last_game_state, perf_tracker, team_fight_analyzer,
                   arg_last, pc, current_gs, req, stored, output,
                   running, channel, processed,
                   enemy_heroes, app_game_time, app_pc>>

\* a new tracker, or one whose Axe history holds WarmUpdates positions
InitTracker ==
    /\ game_state = None
    /\ last_game_state = None
    /\ enemy_tracker \in {EnemyPositionTracker_new, WarmTracker(WarmUpdates)}
    /\ perf_tracker = HeroPerformanceTracker_new
    /\ team_fight_analyzer = TeamFightAnalyzer_new
    /\ arg_state = None
    /\ arg_last = None
    /\ steps = 0
    /\ pc = [h \in Handlers |-> "idle"]
    /\ current_gs = [h \in Handlers |-> None]
    /\ req = [h \in Handlers |-> None]
    /\ stored = <<>>
    /\ output = NoOutput
    /\ running = TRUE
    /\ channel = <<>>
    /\ processed = NothingProcessed
    /\ enemy_heroes = NoEnemyHeroes
    /\ app_game_time = 0
    /\ app_pc = "update"

NextTracker ==
    \E state \in TrackerStates(enemy_tracker.last_game_time) : enemy_tracker_update(state)

SpecTracker == InitTracker /\ [][NextTracker]_vars

-----------------------------------------------------------------------------
(* EnemyPositionTracker with its queries: update, predict_movements and     *)
(* get_movement_descriptions                                                *)

\* update calls of one run
MaxSightings == 2

\* where the enemy icons of the snapshots are
SightingPoints == {<<0, 0>>, <<10, 0>>, <<27, -54>>, <<10, 10>>, <<0, 10>>, <<-10, 5>>}

\* seconds between two snapshots
SightingGaps == {3, 10}

\* game_time of a query, relative to the tracker's last_game_time
QueryOffsets == {-3, 0, 3, 7, 10, 30, 31, 60, 61}

Sighting(t, m) ==
    GameState(Some(Map(Some(t))), Some(TeamPlayer(Some("radiant"))), None, Some(m))

\* the snapshots of the calls: Axe at one point, Axe twice, Axe and Lina, and
\* nobody
SightingStates(last) ==
    UNION {{Sighting(last + g, <<EnemyIcon(AxeName, p[1], p[2])>>) : p \in SightingPoints}
           \cup {Sighting(last + g, <<EnemyIcon(AxeName, 0, 0), EnemyIcon(AxeShort, 10, 0)>>),
                 Sighting(last + g, <<EnemyIcon(AxeName, 10, 0), EnemyIcon(LinaName, 0, 10)>>),
                 Sighting(last + g, <<>>)} : g \in SightingGaps}

\* the orders in which a loop can meet the keys of a HashMap
KeyOrders(map) ==
    LET keys == DOMAIN map
    IN  {o \in [1..Cardinality(keys) -> keys] : \A n \in keys : \E i \in DOMAIN o : o[i] = n}

\* tracker.update(&state)
scout_update(state) ==
    /\ steps < MaxSightings
    /\ steps' = steps + 1
    /\ enemy_tracker' = EnemyPositionTracker_update(enemy_tracker, state)
    /\ arg_state' = Some(state)
    /\ output' = NoOutput
    /\ UNCHANGED <<game_state, last_game_state, perf_tracker, team_fight_analyzer,
                   arg_last, pc, current_gs, req, stored, running, channel, processed,
                   enemy_heroes, app_game_time, app_pc>>

\* tracker.predict_movements(game_time)
scout_predict_movements(game_time, order) ==
    /\ output' = [op |-> "predict_movements", at |-> game_time,
                  lines |-> predict_movements(enemy_tracker, game_time, order)]
    /\ UNCHANGED <<game_state, last_game_state, enemy_tracker, perf_tracker,
                   team_fight_analyzer, arg_state, arg_last, steps, pc, current_gs,
                   req, stored, running, channel, processed,
                   enemy_heroes, app_game_time, app_pc>>

\* tracker.get_movement_descriptions(game_time)
scout_get_movement_descriptions(game_time, order) ==
    /\ output' = [op |-> "get_movement_descriptions", at |-> game_time,
                  lines |-> get_movement_descriptions(enemy_tracker, game_time, order)]
    /\ UNCHANGED <<game_state, last_game_state, enemy_tracker, perf_tracker,
                   team_fight_analyzer, arg_state, arg_last, steps, pc, current_gs,
                   req, stored, running, channel, processed,
                   enemy_heroes, app_game_time, app_pc>>

NextScout ==
    \/ \E state \in SightingStates(enemy_tracker.last_game_time) : scout_update(state)
    \/ \E d \in QueryOffsets, order \in KeyOrders(enemy_tracker.positions) :
           scout_predict_movements(enemy_tracker.last_game_time + d, order)
    \/ \E d \in QueryOffsets, order \in KeyOrders(enemy_tracker.positions) :
           scout_get_movement_descriptions(enemy_tracker.last_game_time + d, order)

SpecScout == InitCoach /\ [][NextScout]_vars

-----------------------------------------------------------------------------
(* The payloads of the runs of the display thread: their parts *)

\* requests one run of the endpoint with the display thread receives
MaxFrames == 3

\* kill counters of the three victim keys
KillCounts(a, b, c) ==
    Some([v \in {Victim1, Victim2, Bare1} |->
             IF v = Victim1 THEN a ELSE IF v = Victim2 THEN b ELSE c])

\* the player of the snapshots: team radiant, 50 last hits, 2500 gold
InsightPlayer(kill_list) ==
    Some(PlayerWithGold(Some(300), Some(350), Some(50), Some("radiant"), kill_list,
                        Some(2500)))

\* the hero of the snapshots: alive, full health and mana, buyback for 3000
InsightHero(xpos, ypos) ==
    Some(HeroOnMap(Some(TRUE), Some(3000), Some(100), Some(100), xpos, ypos))

\* state.map.as_ref().and_then(|m| m.game_time).unwrap_or(-1) of the display thread
DisplayTimeOf(state) ==
    IF IsNone(state.map) THEN -1 ELSE UnwrapOr(state.map[1].game_time, -1)

-----------------------------------------------------------------------------
(* The handlers of the coach endpoint together with the display thread,     *)
(* one lock or one critical section at a time (coach.rs:697-729, 754-783,   *)
(* 1039-1097).  Thread 0 is the display thread, threads 1..NumHandlers run  *)
(* the closure of the endpoint.  req[0] is the snapshot the display thread  *)
(* last handed to display_coach_interface; output.lines collects what       *)
(* display_coaching_insights has printed so far and output.at is            *)
(* last_game_time.                                                          *)

\* requests one run of the threads receives
MaxPosts == 2

DisplayThread == 0

Threads == {DisplayThread} \cup Handlers

\* the snapshots the requests carry: an enemy seen at clock 599 and at clock
\* 600, by a hero whose position the payload leaves out; the second payload
\* gives the hero a health of 103 percent
ThreadStates ==
    {GameStateWithAbilities(Some(Map(Some(599))), InsightPlayer(KillCounts(1, 1, 0)),
                            InsightHero(None, None), None,
                            Some(<<EnemyIcon(AxeName, 1999, 0)>>)),
     GameStateWithAbilities(Some(Map(Some(600))), InsightPlayer(KillCounts(1, 1, 1)),
                            Some(HeroOnMap(Some(TRUE), Some(3000), Some(103), Some(100),
                                           None, None)),
                            None, Some(<<EnemyIcon(AxeName, 2000, 0)>>))}

\* the mutexes of main
Mutexes ==
    {"last_game_state", "game_state", "debug_mode", "enemy_tracker", "perf_tracker",
     "team_fight_analyzer"}

\* the positions of the closure at which last_gs (line 699) is alive
GuardLastGs ==
    {"lock_gs", "lock_debug", "save", "lock_enemy", "enemy", "lock_perf", "perf",
     "lock_team_fight", "team_fight", "rotate", "set"}

\* the positions of the closure at which gs (line 702) is alive
GuardGs == GuardLastGs \ {"lock_gs"}

\* the positions of the closure at which debug (line 705) is alive
GuardDebug == GuardGs \ {"lock_debug"}

\* were the guards of display_coaching_insights bound in the body of the
\* function and not in blocks of their own, the guard of line 1055 would be
\* alive at the lock of line 1067
ScopedGuards_Unscoped(t) ==
    CASE pc[t] = "enemy" -> {"enemy_tracker"}
      [] pc[t] = "perf" -> {"perf_tracker"}
      [] pc[t] = "team_fight" -> {"team_fight_analyzer"}
      [] pc[t] = "d_clone" -> {"game_state"}
      [] pc[t] = "d_status" -> {"team_fight_analyzer"}
      [] pc[t] \in {"d_movements", "d_lock_enemy2", "d_predict"} -> {"enemy_tracker"}
      [] pc[t] = "d_metrics" -> {"perf_tracker"}
      [] OTHER -> {}

\* a guard bound inside a `{ }` block is dropped at the end of the block: the
\* mutexes whose guard of this kind thread t holds at its position
ScopedGuards(t) ==
    CASE pc[t] = "enemy" -> {"enemy_tracker"}
      [] pc[t] = "perf" -> {"perf_tracker"}
      [] pc[t] = "team_fight" -> {"team_fight_analyzer"}
      [] pc[t] = "d_clone" -> {"game_state"}
      [] pc[t] = "d_status" -> {"team_fight_analyzer"}
      [] pc[t] \in {"d_movements", "d_predict"} -> {"enemy_tracker"}
      [] pc[t] = "d_metrics" -> {"perf_tracker"}
      [] OTHER -> {}

\* the mutexes thread t holds at its position
Holding(t) ==
    ScopedGuards(t)
        \cup (IF pc[t] \in GuardLastGs THEN {"last_game_state"} ELSE {})
        \cup (IF pc[t] \in GuardGs THEN {"game_state"} ELSE {})
        \cup (IF pc[t] \in GuardDebug THEN {"debug_mode"} ELSE {})

\* the mutex thread t calls lock() on at its position, None at the others
Wanted(t) ==
    CASE pc[t] = "lock_last_gs" -> Some("last_game_state")
      [] pc[t] \in {"lock_gs", "d_start"} -> Some("game_state")
      [] pc[t] = "lock_debug" -> Some("debug_mode")
      [] pc[t] \in {"lock_enemy", "d_lock_enemy", "d_lock_enemy2"} -> Some("enemy_tracker")
      [] pc[t] \in {"lock_perf", "d_lock_perf"} -> Some("perf_tracker")
      [] pc[t] \in {"lock_team_fight", "d_lock_fight"} -> Some("team_fight_analyzer")
      [] OTHER -> None

\* std::sync::Mutex is not reentrant: lock() returns once no thread, the
\* caller included, holds a guard of the mutex
Available(m) == \A t \in Threads : m \notin Holding(t)

\* Mutex::lock returns to thread t, which goes on to position `next`
Acquire(t, next) ==
    /\ Available(Wanted(t)[1])
    /\ pc' = [pc EXCEPT ![t] = next]
    /\ UNCHANGED <<game_state, last_game_state, enemy_tracker, perf_tracker,
                   team_fight_analyzer, arg_state, arg_last, steps, current_gs,
                   req, stored, output, running, channel, processed,
                   enemy_heroes, app_game_time, app_pc>>

\* let mut last_gs = last_game_state_clone.lock().unwrap();
handler_lock_last_gs(h) ==
    /\ pc[h] = "lock_last_gs"
    /\ Acquire(h, "lock_gs")

\* let mut gs = game_state_clone.lock().unwrap();
handler_lock_gs(h) ==
    /\ pc[h] = "lock_gs"
    /\ Acquire(h, "lock_debug")

\* let mut debug = debug_mode_clone.lock().unwrap();
handler_lock_debug(h) ==
    /\ pc[h] = "lock_debug"
    /\ Acquire(h, "save")

\* debug.save_game_state(&state); main builds DebugMode::new(false), so the
\* call returns at once
handler_save_game_state(h) ==
    /\ pc[h] = "save"
    /\ pc' = [pc EXCEPT ![h] = "lock_enemy"]
    /\ UNCHANGED <<game_state, last_game_state, enemy_tracker, perf_tracker,
                   team_fight_analyzer, arg_state, arg_last, steps, current_gs,
                   req, stored, output, running, channel, processed,
                   enemy_heroes, app_game_time, app_pc>>

\* let mut tracker = enemy_tracker_clone.lock().unwrap();
handler_lock_enemy(h) ==
    /\ pc[h] = "lock_enemy"
    /\ Acquire(h, "enemy")

\* tracker.update(&state); and the end of the block
handler_enemy_update(h) ==
    /\ pc[h] = "enemy"
    /\ enemy_tracker' = EnemyPositionTracker_update(enemy_tracker, req[h][1])
    /\ processed' = [processed EXCEPT !["enemy_tracker"] = Append(@, req[h][1])]
    /\ pc' = [pc EXCEPT ![h] = "lock_perf"]
    /\ UNCHANGED <<game_state, last_game_state, perf_tracker, team_fight_analyzer,
                   arg_state, arg_last, steps, current_gs, req, stored, output,
                   running, channel, enemy_heroes, app_game_time, app_pc>>

\* let mut perf = perf_tracker_clone.lock().unwrap();
handler_lock_perf(h) ==
    /\ pc[h] = "lock_perf"
    /\ Acquire(h, "perf")

\* a variant in which a snapshot the position tracker has ignored as stale is
\* not handed to the sampler
handler_perf_update_SkipsStale(h) ==
    /\ pc[h] = "perf"
    /\ perf_tracker' =
           IF enemy_tracker.last_game_time > GameTimeOf(req[h][1]) THEN perf_tracker
           ELSE HeroPerformanceTracker_update(perf_tracker, req[h][1], last_game_state)
    /\ processed' = [processed EXCEPT !["perf_tracker"] = Append(@, req[h][1])]
    /\ pc' = [pc EXCEPT ![h] = "lock_team_fight"]
    /\ UNCHANGED <<game_state, last_game_state, enemy_tracker, team_fight_analyzer,
                   arg_state, arg_last, steps, current_gs, req, stored, output,
                   running, channel, enemy_heroes, app_game_time, app_pc>>

\* perf.update(&state, &last_gs); and the end of the block
handler_perf_update(h) ==
    /\ pc[h] = "perf"
    /\ perf_tracker' =
           HeroPerformanceTracker_update(perf_tracker, req[h][1], last_game_state)
    /\ processed' = [processed EXCEPT !["perf_tracker"] = Append(@, req[h][1])]
    /\ pc' = [pc EXCEPT ![h] = "lock_team_fight"]
    /\ UNCHANGED <<game_state, last_game_state, enemy_tracker, team_fight_analyzer,
                   arg_state, arg_last, steps, current_gs, req, stored, output,
                   running, channel, enemy_heroes, app_game_time, app_pc>>

\* let mut team_fight = team_fight_analyzer_clone.lock().unwrap();
handler_lock_team_fight(h) ==
    /\ pc[h] = "lock_team_fight"
    /\ Acquire(h, "team_fight")

\* a variant of the closure that leaves out the block of lines 719-722: the
\* snapshot becomes the current one without the detector having seen it
handler_team_fight_update_LeftOut(h) ==
    /\ pc[h] = "team_fight"
    /\ pc' = [pc EXCEPT ![h] = "rotate"]
    /\ UNCHANGED <<game_state, last_game_state, enemy_tracker, perf_tracker,
                   team_fight_analyzer, arg_state, arg_last, steps, current_gs,
                   req, stored, output, running, channel, processed,
                   enemy_heroes, app_game_time, app_pc>>

\* team_fight.update(&state, &last_gs); and the end of the block
handler_team_fight_update(h) ==
    /\ pc[h] = "team_fight"
    /\ team_fight_analyzer' =
           TeamFightAnalyzer_update(team_fight_analyzer, req[h][1], last_game_state)
    /\ processed' = [processed EXCEPT !["team_fight_analyzer"] = Append(@, req[h][1])]
    /\ arg_state' = req[h]
    /\ arg_last' = last_game_state
    /\ pc' = [pc EXCEPT ![h] = "rotate"]
    /\ UNCHANGED <<game_state, last_game_state, enemy_tracker, perf_tracker, steps,
                   current_gs, req, stored, output, running, channel,
                   enemy_heroes, app_game_time, app_pc>>

\* last_game_time of the display thread, -1 before the first display
LastGameTime == IF output.op = "none" THEN -1 ELSE output.at

\* game_time of the display in progress
DisplayedTime == DisplayTimeOf(req[DisplayThread][1])

\* let state = game_state.lock().unwrap();
display_lock_gs ==
    /\ pc[DisplayThread] = "d_start"
    /\ Acquire(DisplayThread, "d_clone")

\* (a as f32 * f).round() as usize for 0 <= a < 2^7 and f = m / 2^k of
\* at least 2^-6: the product rounded to 24 bits, then to the nearest
\* integer, halves away from zero
F32MulRound(a, f) ==
    LET p == a * f.m
        s == ExcessBits(p, 0)
        r == RoundHalfEven(p, 2^s) * 2^s
    IN  (r \div 2^f.k) + (IF 2 * (r % 2^f.k) >= 2^f.k THEN 1 ELSE 0)

\* filled_length of create_bar(percent, length) for percent below 2^24: a
\* negative f32 casts to the usize 0
filled_length(percent, length) ==
    IF percent <= 0 THEN 0 ELSE F32MulRound(length, F32Div(percent, 100))

\* `length - filled_length` of create_bar underflows; the build with overflow
\* checks panics there, the other one in "░".repeat(..) of the wrapped length
create_bar_panics(percent, length) == filled_length(percent, length) > length

\* display_hero_section panics: the hero has health_percent and mana_percent
\* and one of the two bars of length 20 cannot be drawn
display_hero_section_panics(state) ==
    /\ IsSome(state.hero)
    /\ IsSome(state.hero[1].health_percent)
    /\ IsSome(state.hero[1].mana_percent)
    /\ \/ create_bar_panics(state.hero[1].health_percent[1], 20)
       \/ create_bar_panics(state.hero[1].mana_percent[1], 20)

\* state.clone(), the end of the block, the two tests that decide whether the
\* screen is redrawn, and display_coach_interface up to the header of
\* display_coaching_insights; a panic in display_hero_section ends the thread
display_clone ==
    /\ pc[DisplayThread] = "d_clone"
    /\ IF IsSome(game_state) /\ DisplayTimeOf(game_state[1]) # LastGameTime
       THEN /\ req' = [req EXCEPT ![DisplayThread] = game_state]
            /\ IF display_hero_section_panics(game_state[1])
               THEN /\ pc' = [pc EXCEPT ![DisplayThread] = "d_panicked"]
                    /\ output' = [op |-> "panic", at |-> LastGameTime, lines |-> <<>>]
               ELSE /\ pc' = [pc EXCEPT ![DisplayThread] = "d_lock_fight"]
                    /\ output' = [op |-> "displaying", at |-> LastGameTime,
                                  lines |-> <<Line("COACH INSIGHTS", <<>>),
                                              Line("--------------", <<>>)>>]
       ELSE /\ pc' = [pc EXCEPT ![DisplayThread] = "d_sleep"]
            /\ UNCHANGED <<req, output>>
    /\ UNCHANGED <<game_state, last_game_state, enemy_tracker, perf_tracker,
                   team_fight_analyzer, arg_state, arg_last, steps, current_gs,
                   stored, running, channel, processed,
                   enemy_heroes, app_game_time, app_pc>>

\* let analyzer = team_fight_analyzer.lock().unwrap();
display_lock_fight ==
    /\ pc[DisplayThread] = "d_lock_fight"
    /\ Acquire(DisplayThread, "d_status")

\* analyzer.get_team_fight_status(game_time), the end of the block, and the
\* section printed from the result
display_status ==
    /\ pc[DisplayThread] = "d_status"
    /\ output' = [output EXCEPT
                     !.lines = @ \o FightSection(team_fight_analyzer, DisplayedTime)]
    /\ pc' = [pc EXCEPT ![DisplayThread] = "d_lock_enemy"]
    /\ UNCHANGED <<game_state, last_game_state, enemy_tracker, perf_tracker,
                   team_fight_analyzer, arg_state, arg_last, steps, current_gs,
                   req, stored, running, channel, processed,
                   enemy_heroes, app_game_time, app_pc>>

\* let tracker = enemy_tracker.lock().unwrap();  (line 1055)
display_lock_enemy ==
    /\ pc[DisplayThread] = "d_lock_enemy"
    /\ Acquire(DisplayThread, "d_movements")

\* tracker.get_movement_descriptions(game_time), the end of the block, and the
\* lines printed before the predictions are asked for
display_movements(order) ==
    /\ pc[DisplayThread] = "d_movements"
    /\ LET enemy_movements ==
               get_movement_descriptions(enemy_tracker, DisplayedTime, order)
       IN  IF enemy_movements # <<>>
           THEN /\ output' = [output EXCEPT
                                 !.lines = @ \o <<Line("ENEMY TRACKING", <<>>)>>
                                             \o enemy_movements]
                /\ pc' = [pc EXCEPT ![DisplayThread] = "d_lock_enemy2"]
           ELSE /\ output' = output
                /\ pc' = [pc EXCEPT ![DisplayThread] = "d_lock_perf"]
    /\ UNCHANGED <<game_state, last_game_state, enemy_tracker, perf_tracker,
                   team_fight_analyzer, arg_state, arg_last, steps, current_gs,
                   req, stored, running, channel, processed,
                   enemy_heroes, app_game_time, app_pc>>

\* let tracker = enemy_tracker.lock().unwrap();  (line 1067)
display_lock_predict ==
    /\ pc[DisplayThread] = "d_lock_enemy2"
    /\ Acquire(DisplayThread, "d_predict")

\* tracker.predict_movements(game_time), the end of the block, and the lines
\* printed from the result; a panic in the loop ends the thread.  The vector
\* and the lines are computed once and bound.
display_predict(order, checked) ==
    /\ pc[DisplayThread] = "d_predict"
    /\ \E predictions \in {predict_movements(enemy_tracker, DisplayedTime, order)} :
       \E predicted \in {PredictionLines(predictions, req[DisplayThread][1], checked)} :
           IF predictions = <<>>
           THEN /\ output' = [output EXCEPT !.lines = @ \o <<Blank>>]
                /\ pc' = [pc EXCEPT ![DisplayThread] = "d_lock_perf"]
           ELSE IF predicted.panicked
           THEN /\ output' = [output EXCEPT
                                 !.op = "panic",
                                 !.lines = @ \o <<Blank, Line("Predicted movements:", <<>>)>>
                                             \o predicted.lines]
                /\ pc' = [pc EXCEPT ![DisplayThread] = "d_panicked"]
           ELSE /\ output' = [output EXCEPT
                                 !.lines = @ \o <<Blank, Line("Predicted movements:", <<>>)>>
                                             \o predicted.lines \o <<Blank>>]
                /\ pc' = [pc EXCEPT ![DisplayThread] = "d_lock_perf"]
    /\ UNCHANGED <<game_state, last_game_state, enemy_tracker, perf_tracker,
                   team_fight_analyzer, arg_state, arg_last, steps, current_gs,
                   req, stored, running, channel, processed,
                   enemy_heroes, app_game_time, app_pc>>

\* let tracker = perf_tracker.lock().unwrap();
display_lock_perf ==
    /\ pc[DisplayThread] = "d_lock_perf"
    /\ Acquire(DisplayThread, "d_metrics")

\* a variant that prints the phase block before the performance metrics
display_metrics_shown_PhaseFirst ==
    /\ pc[DisplayThread] = "d_metrics"
    /\ \E game_time \in {DisplayedTime} :
           output' = [op |-> "display_coaching_insights", at |-> game_time,
                      lines |-> output.lines
                                \o PhaseBlock(req[DisplayThread][1],
                                              TruncDiv(game_time, 60),
                                              TruncRem(game_time, 60))
                                \o PerformanceSection(perf_tracker, game_time)
                                \o <<Blank>>]
    /\ pc' = [pc EXCEPT ![DisplayThread] = "d_sleep"]
    /\ UNCHANGED <<game_state, last_game_state, enemy_tracker, perf_tracker,
                   team_fight_analyzer, arg_state, arg_last, steps, current_gs,
                   req, stored, running, channel, processed,
                   enemy_heroes, app_game_time, app_pc>>

\* tracker.display_metrics(game_time), the end of the block, the rest of
\* display_coaching_insights, and last_game_time = game_time
display_metrics_shown ==
    /\ pc[DisplayThread] = "d_metrics"
    /\ \E game_time \in {DisplayedTime} :
           output' = [op |-> "display_coaching_insights", at |-> game_time,
                      lines |-> output.lines
                                \o PerformanceSection(perf_tracker, game_time)
                                \o PhaseBlock(req[DisplayThread][1],
                                              TruncDiv(game_time, 60),
                                              TruncRem(game_time, 60))
                                \o <<Blank>>]
    /\ pc' = [pc EXCEPT ![DisplayThread] = "d_sleep"]
    /\ UNCHANGED <<game_state, last_game_state, enemy_tracker, perf_tracker,
                   team_fight_analyzer, arg_state, arg_last, steps, current_gs,
                   req, stored, running, channel, processed,
                   enemy_heroes, app_game_time, app_pc>>

\* thread::sleep(Duration::from_millis(100)); and the next turn of the loop
display_sleep ==
    /\ pc[DisplayThread] = "d_sleep"
    /\ pc' = [pc EXCEPT ![DisplayThread] = "d_start"]
    /\ UNCHANGED <<game_state, last_game_state, enemy_tracker, perf_tracker,
                   team_fight_analyzer, arg_state, arg_last, steps, current_gs,
                   req, stored, output, running, channel, processed,
                   enemy_heroes, app_game_time, app_pc>>

\* display_thread.join().unwrap() of main (line 786): the display thread has
\* panicked, so main panics; unwinding drops the runtime, which takes no
\* further request and lets the closures that are running come to their end
main_join ==
    /\ pc[DisplayThread] = "d_panicked"
    /\ pc' = [pc EXCEPT ![DisplayThread] = "d_joined"]
    /\ UNCHANGED <<game_state, last_game_state, enemy_tracker, perf_tracker,
                   team_fight_analyzer, arg_state, arg_last, steps, current_gs,
                   req, stored, output, running, channel, processed,
                   enemy_heroes, app_game_time, app_pc>>

\* the server takes requests until main has left join
ServerRuns == pc[DisplayThread] # "d_joined"

\* the requests that arrive
Arrivals ==
    /\ steps < MaxPosts
    /\ ServerRuns
    /\ \E h \in Handlers :
           \/ \E state \in ThreadStates : coach_accept(h, state)
           \/ coach_reject(h)

\* the steps of handler h that call lock()
HandlerLocks(h) ==
    \/ handler_lock_last_gs(h)
    \/ handler_lock_gs(h)
    \/ handler_lock_debug(h)
    \/ handler_lock_enemy(h)
    \/ handler_lock_perf(h)
    \/ handler_lock_team_fight(h)

\* the other steps of handler h
HandlerWork(h) ==
    \/ handler_save_game_state(h)
    \/ handler_enemy_update(h)
    \/ handler_perf_update(h)
    \/ handler_team_fight_update(h)
    \/ coach_rotate(h)
    \/ coach_set_current(h)

\* the steps of the display thread that call lock()
DisplayLocks ==
    \/ display_lock_gs
    \/ display_lock_fight
    \/ display_lock_enemy
    \/ display_lock_predict
    \/ display_lock_perf

\* the other steps of the display thread
DisplayWork ==
    \/ display_clone
    \/ display_status
    \/ \E order \in KeyOrders(enemy_tracker.positions) : display_movements(order)
    \/ \E order \in KeyOrders(enemy_tracker.positions), checked \in BOOLEAN :
           display_predict(order, checked)
    \/ display_metrics_shown
    \/ display_sleep

InitThreads ==
    /\ game_state = None
    /\ last_game_state = None
    /\ enemy_tracker = EnemyPositionTracker_new
    /\ perf_tracker = HeroPerformanceTracker_new
    /\ team_fight_analyzer = TeamFightAnalyzer_new
    /\ arg_state = None
    /\ arg_last = None
    /\ steps = 0
    /\ pc = [t \in Threads |-> IF t = DisplayThread THEN "d_start" ELSE "idle"]
    /\ current_gs = [t \in Threads |-> None]
    /\ req = [t \in Threads |-> None]
    /\ stored = <<>>
    /\ output = NoOutput
    /\ running = TRUE
    /\ channel = <<>>
    /\ processed = NothingProcessed
    /\ enemy_heroes = NoEnemyHeroes
    /\ app_game_time = 0
    /\ app_pc = "update"

NextThreads ==
    \/ Arrivals
    \/ \E h \in Handlers : HandlerLocks(h)
    \/ \E h \in Handlers : HandlerWork(h)
    \/ DisplayLocks
    \/ DisplayWork
    \/ main_join

\* Scheduling of the threads: a thread that can run does run, and a call of
\* lock() returns when the mutex stays free.  std::sync::Mutex keeps no queue
\* of its waiters and promises no order among them, so a call of lock() that
\* finds the mutex free again and again, but taken in between, need not
\* return.  No request has to arrive.
FairScheduling ==
    /\ \A h \in Handlers : WF_vars(HandlerWork(h)) /\ WF_vars(HandlerLocks(h))
    /\ WF_vars(DisplayWork)
    /\ WF_vars(DisplayLocks)

SpecThreads == InitThreads /\ [][NextThreads]_vars /\ FairScheduling

-----------------------------------------------------------------------------
(* The endpoint of the coach binary on its own: the closure of a request,   *)
(* one lock or one critical section at a time, while the display thread is  *)
(* not scheduled.  The closure holds last_game_state from its first         *)
(* statement to its last, so the closures of two requests never overlap;    *)
(* the requests of these runs arrive one after the other.                   *)

\* a request arrives: its payload is a snapshot, or is none.  Which worker
\* runs the closure makes no difference to the state: the first one does.
Ingestion ==
    /\ steps < MaxSteps
    /\ \A g \in Handlers : pc[g] = "idle"
    /\ \E h \in Handlers :
           /\ \A g \in Handlers : h <= g
           /\ \/ \E state \in IngestStates : coach_accept(h, state)
              \/ coach_reject(h)

Next ==
    \/ Ingestion
    \/ \E h \in Handlers : HandlerLocks(h)
    \/ \E h \in Handlers : HandlerWork(h)

Init == InitThreads

Spec == Init /\ [][Next]_vars

-----------------------------------------------------------------------------
(* The endpoint and the display thread on feeds that reach the sections of  *)
(* display_coaching_insights.  A feed is the sequence of the payloads of a  *)
(* run; the requests arrive one after the other, and the display thread     *)
(* runs beside the closure of each.                                         *)

\* a snapshot of a feed; last_hits tells the payloads of a feed apart
Frame(map, kill_list, last_hits, hero, enemy_x) ==
    GameStateWithAbilities(map,
                           Some(PlayerWithGold(Some(300), Some(350), Some(last_hits),
                                               Some("radiant"), kill_list, Some(2500))),
                           hero, None, Some(<<EnemyIcon(AxeName, enemy_x, 0)>>))

\* minute 9 to minute 10, twice at clock 600: an enemy that comes from 2000
\* to 1999 units east of the hero, and three kills by the third payload
FightFeed(k) ==
    IF k = 1
    THEN Frame(Some(Map(Some(599))), KillCounts(0, 0, 0), 50, InsightHero(Some(0), Some(0)),
               2000)
    ELSE IF k = 2
    THEN Frame(Some(Map(Some(600))), KillCounts(1, 1, 0), 52, InsightHero(Some(0), Some(0)),
               1999)
    ELSE Frame(Some(Map(Some(600))), KillCounts(1, 1, 1), 50 + 2 * k,
               InsightHero(Some(0), Some(0)), 1999)

\* minute 24 to minute 25, then payloads without map: an enemy that goes from
\* 1999 to 2000 units east of the hero
LateFeed(k) ==
    IF k = 1
    THEN Frame(Some(Map(Some(1499))), KillCounts(0, 0, 0), 50, InsightHero(Some(0), Some(0)),
               1999)
    ELSE IF k = 2
    THEN Frame(Some(Map(Some(1500))), KillCounts(0, 0, 0), 52, InsightHero(Some(0), Some(0)),
               2000)
    ELSE Frame(None, KillCounts(0, 0, 0), 50 + 2 * k, InsightHero(Some(0), Some(0)), 2000)

\* an enemy that stays 65536 units east of the hero, one second a payload
FarFeed(k) ==
    Frame(Some(Map(Some(598 + k))), KillCounts(0, 0, 0), 48 + 2 * k,
          InsightHero(Some(0), Some(0)), 65536)

\* a hero without xpos, then no hero, one second a payload: the enemy comes
\* from 1998 to 1999 units east of the origin
BlindFeed(k) ==
    IF k = 1
    THEN Frame(Some(Map(Some(1499))), KillCounts(0, 0, 0), 50, InsightHero(None, Some(0)),
               1998)
    ELSE IF k = 2
    THEN Frame(Some(Map(Some(1500))), KillCounts(0, 0, 0), 52, InsightHero(None, Some(0)),
               1999)
    ELSE Frame(Some(Map(Some(1498 + k))), KillCounts(0, 0, 0), 50 + 2 * k, None, 1999)

\* the feeds of the runs, each as the sequence of its payloads
InsightFeeds ==
    {[k \in 1..MaxFrames |-> FightFeed(k)], [k \in 1..MaxFrames |-> LateFeed(k)],
     [k \in 1..MaxFrames |-> FarFeed(k)], [k \in 1..MaxFrames |-> BlindFeed(k)]}

\* the next payload of a feed arrives once the closure of the one before it
\* has returned
FeedArrivals ==
    /\ steps < MaxFrames
    /\ ServerRuns
    /\ \A g \in Handlers : pc[g] = "idle"
    /\ \E h \in Handlers, feed \in InsightFeeds :
           /\ SubSeq(feed, 1, steps) = stored
           /\ coach_accept(h, feed[steps + 1])

NextInsights ==
    \/ FeedArrivals
    \/ \E h \in Handlers : HandlerLocks(h)
    \/ \E h \in Handlers : HandlerWork(h)
    \/ DisplayLocks
    \/ DisplayWork
    \/ main_join

SpecInsights == InitThreads /\ [][NextInsights]_vars

-----------------------------------------------------------------------------
(* The terminal application: the task of EventHandler::new that sends Tick   *)
(* and terminal events into the unbounded channel (event.rs:35-74), and     *)
(* App::run, which receives one event per turn of its loop (app.rs:34-57,   *)
(* 112-132).  A turn of `while self.running` has two steps.  First update() *)
(* polls game_state and merges what it shows into enemy_heroes (app.rs:     *)
(* 59-110, state.rs:212-295) and terminal.draw() reads the fields; draw is  *)
(* taken to succeed.  Then self.events.next().await returns the oldest      *)
(* event, once there is one, and the match handles it.  app_pc is "update"  *)
(* before the first step, "next" before the second, and "returned" after    *)
(* the loop.  An EnemyHero is modelled by its name, position, last_seen and *)
(* estimated_level; its health and mana fields, which update copies inside  *)
(* the same branch as the position, are left out.                           *)

\* events the task sends in one run
MaxInputs == 3

\* an Event of the channel; code and modifiers are those of a key event
Event(kind, code, modifiers) == [kind |-> kind, code |-> code, modifiers |-> modifiers]

\* Event::Tick
Tick == Event("Tick", "", {})

\* Event::Crossterm(Event::Key(KeyEvent { code, modifiers, .. }))
Key(code, modifiers) == Event("Key", code, modifiers)

\* Event::Crossterm(Event::Resize(..)), a terminal event that is no key event
Resize == Event("Resize", "", {})

\* Event::App(AppEvent::Quit)
Quit == Event("Quit", "", {})

\* what the task sends: ticks, resizes, and the keys q, Ctrl+q, Esc, Ctrl+c,
\* c, Ctrl+Shift+c and x
Inputs ==
    {Tick, Resize, Key("q", {}), Key("q", {"CONTROL"}), Key("Esc", {}),
     Key("c", {"CONTROL"}), Key("c", {}), Key("c", {"CONTROL", "SHIFT"}),
     Key("x", {})}

\* a variant of send that puts the event before the pending ones
Sent_First(queue, event) == <<event>> \o queue

\* UnboundedSender::send: the event goes behind the pending ones
Sent(queue, event) == Append(queue, event)

\* App::handle_key_event: the channel after the call
handle_key_event(queue, key_event) ==
    IF key_event.code \in {"q", "Esc"}
    THEN Sent(queue, Quit)
    ELSE IF key_event.code = "c" /\ key_event.modifiers = {"CONTROL"}
    THEN Sent(queue, Quit)
    ELSE queue

\* one turn of the select! loop of the task; when App::run has returned the
\* receiver is dropped and the task ends
event_task_send(event) ==
    /\ running
    /\ steps < MaxInputs
    /\ steps' = steps + 1
    /\ channel' = Sent(channel, event)
    /\ UNCHANGED <<game_state, last_game_state, enemy_tracker, perf_tracker,
                   team_fight_analyzer, arg_state, arg_last, pc, current_gs, req,
                   stored, output, running, processed, enemy_heroes,
                   app_game_time, app_pc>>

\* estimate_hero_level
estimate_hero_level(game_time) ==
    LET minutes == TruncDiv(game_time, 60)
    IN  IF minutes < 10 THEN TruncDiv(minutes, 2) + 1 ELSE TruncDiv(minutes, 3) + 5

\* struct EnemyHero: name, position, last_seen, estimated_level
EnemyHero(name, position, last_seen, estimated_level) ==
    [name |-> name, position |-> position, last_seen |-> last_seen,
     estimated_level |-> estimated_level]

\* for (_, obj) in minimap { ... enemy_heroes.insert(hero_name.clone(), ...) }:
\* minimap is in iteration order, and a later record of a name replaces an
\* earlier one
RECURSIVE InsertEnemyHeroes(_, _, _, _)
InsertEnemyHeroes(heroes, minimap, enemy_team_id, current_game_time) ==
    IF minimap = <<>> THEN heroes
    ELSE LET obj == Head(minimap)
             hero_name == format_hero_name(obj.name[1])
             hero == EnemyHero(hero_name, <<obj.xpos, obj.ypos>>, current_game_time,
                               estimate_hero_level(current_game_time))
             next == IF IsTracked(obj, enemy_team_id)
                     THEN [n \in DOMAIN heroes \cup {hero_name} |->
                              IF n = hero_name THEN hero ELSE heroes[n]]
                     ELSE heroes
         IN  InsertEnemyHeroes(next, Tail(minimap), enemy_team_id, current_game_time)

\* extract_enemy_heroes
extract_enemy_heroes(state) ==
    IF IsNone(state.minimap) THEN NoEnemyHeroes
    ELSE InsertEnemyHeroes(NoEnemyHeroes, state.minimap[1], EnemyTeamId(state),
                           GameTimeOf(state))

\* a variant that also takes a record of the same clock
IsMoreRecent_OrSame(hero, e) == hero.last_seen >= e.last_seen

\* "Only update if we have more recent information"
IsMoreRecent(hero, e) == hero.last_seen > e.last_seen

\* the loop `for (name, hero) in new_enemy_heroes` of App::update:
\* entry(name).and_modify(..).or_insert(hero)
MergeEnemyHeroes(table, new_enemy_heroes) ==
    [n \in DOMAIN table \cup DOMAIN new_enemy_heroes |->
        IF n \notin DOMAIN new_enemy_heroes THEN table[n]
        ELSE IF n \notin DOMAIN table THEN new_enemy_heroes[n]
        ELSE IF IsMoreRecent(new_enemy_heroes[n], table[n])
        THEN [table[n] EXCEPT !.position = new_enemy_heroes[n].position,
                              !.last_seen = new_enemy_heroes[n].last_seen,
                              !.estimated_level = new_enemy_heroes[n].estimated_level]
        ELSE table[n]]

\* App::update: the fields enemy_heroes and game_time after the call, given
\* the clone of game_state
App_update(app, game_state_option) ==
    IF IsNone(game_state_option) THEN app
    ELSE [enemy_heroes |->
              MergeEnemyHeroes(app.enemy_heroes,
                               extract_enemy_heroes(game_state_option[1])),
          game_time |-> GameTimeOf(game_state_option[1])]

\* self.update(); terminal.draw(..)?: the first half of a turn of
\* `while self.running`
app_update ==
    /\ app_pc = "update"
    /\ LET app == [enemy_heroes |-> enemy_heroes, game_time |-> app_game_time]
           polled == App_update(app, game_state)
       IN  /\ enemy_heroes' = polled.enemy_heroes
           /\ app_game_time' = polled.game_time
    /\ app_pc' = "next"
    /\ UNCHANGED <<game_state, last_game_state, enemy_tracker, perf_tracker,
                   team_fight_analyzer, arg_state, arg_last, steps, pc, current_gs,
                   req, stored, output, running, channel, processed>>

\* match self.events.next().await? { .. }: the oldest event is received once
\* there is one and handled, and `while self.running` is tested again
app_run ==
    /\ app_pc = "next"
    /\ channel # <<>>
    /\ LET event == Head(channel)
           pending == Tail(channel)
       IN  CASE event.kind = "Key" ->
                    /\ channel' = handle_key_event(pending, event)
                    /\ running' = running
              [] event.kind = "Quit" ->
                    /\ channel' = pending
                    /\ running' = FALSE
              [] OTHER ->
                    /\ channel' = pending
                    /\ running' = running
    /\ app_pc' = IF running' THEN "update" ELSE "returned"
    /\ UNCHANGED <<game_state, last_game_state, enemy_tracker, perf_tracker,
                   team_fight_analyzer, arg_state, arg_last, steps, pc, current_gs,
                   req, stored, output, processed, enemy_heroes, app_game_time>>

NextApp ==
    \/ \E event \in Inputs : event_task_send(event)
    \/ app_update
    \/ app_run

\* the loop of App::run is scheduled again and again
SpecApp == InitCoach /\ [][NextApp]_vars /\ WF_vars(app_update) /\ WF_vars(app_run)

-----------------------------------------------------------------------------
(* The terminal application with its server: the requests of server.rs      *)
(* store snapshots in game_state while the loop of App::run polls it.      *)

\* requests one run of the server receives
MaxStores == 2

Lina3 == EnemyIcon(LinaName, 7, 7)

\* the snapshots of the requests: no clock and clock 120; one enemy, the same
\* enemy twice under two spellings of its name, and another enemy
PollStates ==
    {GameState(c, Some(TeamPlayer(Some("radiant"))), None, m) :
        c \in {None, Some(Map(Some(120)))},
        m \in {Some(<<Axe3>>), Some(<<EnemyIcon(AxeName, 20, 0), AxeAlias3>>),
               Some(<<Lina3>>)}}

\* Ok(state): a request arrives at an idle handler
poll_accept(h, state) ==
    /\ pc[h] = "idle"
    /\ Len(stored) + Cardinality({g \in Handlers : pc[g] # "idle"}) < MaxStores
    /\ req' = [req EXCEPT ![h] = Some(state)]
    /\ pc' = [pc EXCEPT ![h] = "read_current"]
    /\ UNCHANGED <<game_state, last_game_state, enemy_tracker, perf_tracker,
                   team_fight_analyzer, arg_state, arg_last, steps, current_gs,
                   stored, output, running, channel, processed, enemy_heroes,
                   app_game_time, app_pc>>

\* the events of a run with the server: the ticks of the task's interval
PollInputs == {Tick}

\* the game sends its snapshots one after the other: a request is accepted
\* after the one before it has left the closure
NextPoll ==
    \/ \E h \in Handlers :
           /\ OthersIdle(h)
           /\ \/ \E state \in PollStates : poll_accept(h, state)
              \/ server_read_current(h)
              \/ server_store_last(h)
              \/ server_store_current(h)
    \/ \E event \in PollInputs : event_task_send(event)
    \/ app_update
    \/ app_run

SpecPoll == InitCoach /\ [][NextPoll]_vars


-----------------------------------------------------------------------------
(* HeroPerformanceTracker on its own: update with any (state, last_state)   *)
(* pair, and display_metrics at any game time                               *)

\* update calls of one run
MaxSamplerUpdates == 2

\* samples each series of the warm sampler holds
WarmSamples == 19

GpmValues == {100, 140, 300, 301}

LastHitValues == {2, 3, 5, 7, 40, 60, 80}

DeathClocks == {50, 400}

ReportTimes == {30, 60, 240, 300, 600, 700}

HeroState(t, alive) == GameState(Some(Map(Some(t))), None, Some(Hero(alive)), None)

\* (state, last_state) pairs for which the death test differs
DeathCalls ==
    UNION {{<<HeroState(t, Some(FALSE)), Some(HeroState(t - 1, Some(TRUE)))>>,
            <<HeroState(t, Some(FALSE)), Some(HeroState(t - 1, None))>>,
            <<HeroState(t, Some(FALSE)), Some(HeroState(t - 1, Some(FALSE)))>>,
            <<HeroState(t, Some(FALSE)), None>>,
            <<HeroState(t, Some(FALSE)),
              Some(GameState(Some(Map(Some(t - 1))), None, None, None))>>,
            <<HeroState(t, Some(TRUE)), Some(HeroState(t - 1, Some(TRUE)))>>,
            <<HeroState(t, None), Some(HeroState(t - 1, Some(TRUE)))>>,
            <<GameState(Some(Map(Some(t))), None, None, None),
              Some(HeroState(t - 1, Some(TRUE)))>>} : t \in DeathClocks}

\* states that carry one or two of the sampled values
SampleCalls ==
    {<<GameState(Some(Map(Some(100))),
                 Some(Player(Some(g), None, None, None, None)), None, None), None>> :
        g \in GpmValues}
    \cup {<<GameState(Some(Map(Some(100))),
                      Some(Player(None, Some(400), Some(l), None, None)), None, None),
            None>> : l \in LastHitValues}

SamplerCalls == DeathCalls \cup SampleCalls

WarmSample(k) ==
    GameState(Some(Map(Some(k))), Some(Player(Some(301), Some(400), Some(40), None, None)),
              None, None)

\* the sampler after k updates with WarmSample(1) .. WarmSample(k)
RECURSIVE WarmSampler(_)
WarmSampler(k) ==
    IF k <= 0 THEN HeroPerformanceTracker_new
    ELSE HeroPerformanceTracker_update(WarmSampler(k - 1), WarmSample(k), None)

\* perf.update(&state, &last_state)
perf_update(state, last_state) ==
    /\ steps < MaxSamplerUpdates
    /\ steps' = steps + 1
    /\ perf_tracker' = HeroPerformanceTracker_update(perf_tracker, state, last_state)
    /\ arg_state' = Some(state)
    /\ arg_last' = last_state
    /\ output' = NoOutput
    /\ UNCHANGED <<game_state, last_game_state, enemy_tracker, team_fight_analyzer,
                   pc, current_gs, req, stored, running, channel, processed,
                   enemy_heroes, app_game_time, app_pc>>

\* perf.display_metrics(game_time)
perf_display_metrics(game_time) ==
    /\ output' = [op |-> "display_metrics", at |-> game_time,
                  lines |-> display_metrics(perf_tracker, game_time)]
    /\ UNCHANGED <<game_state, last_game_state, enemy_tracker, perf_tracker,
                   team_fight_analyzer, arg_state, arg_last, steps, pc, current_gs,
                   req, stored, running, channel, processed,
                   enemy_heroes, app_game_time, app_pc>>

\* a new sampler, or one whose series hold WarmSamples samples each
InitSampler ==
    /\ game_state = None
    /\ last_game_state = None
    /\ enemy_tracker = EnemyPositionTracker_new
    /\ perf_tracker \in {HeroPerformanceTracker_new, WarmSampler(WarmSamples)}
    /\ team_fight_analyzer = TeamFightAnalyzer_new
    /\ arg_state = None
    /\ arg_last = None
    /\ steps = 0
    /\ pc = [h \in Handlers |-> "idle"]
    /\ current_gs = [h \in Handlers |-> None]
    /\ req = [h \in Handlers |-> None]
    /\ stored = <<>>
    /\ output = NoOutput
    /\ running = TRUE
    /\ channel = <<>>
    /\ processed = NothingProcessed
    /\ enemy_heroes = NoEnemyHeroes
    /\ app_game_time = 0
    /\ app_pc = "update"

NextSampler ==
    \/ \E call \in SamplerCalls : perf_update(call[1], call[2])
    \/ \E game_time \in ReportTimes : perf_display_metrics(game_time)

SpecSampler == InitSampler /\ [][NextSampler]_vars

-----------------------------------------------------------------------------
(* Claims about the coach endpoint and the snapshot store *)

\* the snapshot carries a hero whose alive flag is Some(true)
KnownAlive(gs) ==
    /\ IsSome(gs)
    /\ IsSome(gs[1].hero)
    /\ gs[1].hero[1].alive = Some(TRUE)

\* the snapshot carries a hero whose alive flag is Some(false)
KnownDead(gs) ==
    /\ IsSome(gs)
    /\ IsSome(gs[1].hero)
    /\ gs[1].hero[1].alive = Some(FALSE)

\* handler h runs the update of the event detector in this step
DetectorUpdates(h) == pc[h] = "team_fight" /\ pc'[h] = "rotate"

\* handler h runs the update of the metric sampler in this step
SamplerUpdates(h) == pc[h] = "perf" /\ pc'[h] = "lock_team_fight"

\* C1: whenever the hero is alive in the snapshot held as current and dead in
\* the snapshot being ingested, the update of the event detector in that
\* ingestion appends exactly one entry to the analyzer's player_deaths,
\* stamped with the new snapshot's game clock.
C1_OneDeathPerTransition ==
    [][\A h \in Handlers :
          (DetectorUpdates(h) /\ KnownAlive(game_state) /\ KnownDead(req[h]))
          => team_fight_analyzer'.player_deaths
             = Append(team_fight_analyzer.player_deaths, GameTimeOf(req[h][1]))]_vars

\* C2: at every ingestion from the second on, the previous snapshot handed to
\* the metric sampler and the event detector is the snapshot that is held as
\* current while the ingestion runs.
C2_TrackersDiffAgainstCurrent ==
    [][\A h \in Handlers :
          (DetectorUpdates(h) /\ IsSome(game_state)) => arg_last' = game_state]_vars

\* C3: in every state of the store that a reader can observe, current is the
\* snapshot stored last and previous is the snapshot stored just before it
\* (nothing when fewer than two snapshots were stored).
C3_PairFromOneStep ==
    /\ game_state = (IF Len(stored) = 0 THEN None ELSE Some(Last(stored)))
    /\ last_game_state =
           (IF Len(stored) <= 1 THEN None ELSE Some(stored[Len(stored) - 1]))

\* C6: while a snapshot whose game clock equals that of the snapshot held as
\* current is ingested, no step changes the length of a sampler series or the
\* number of events the detector has recorded.
C6_DuplicateChangesNothing ==
    [][\A h \in Handlers :
          (/\ IsSome(req[h])
           /\ IsSome(game_state)
           /\ GameTimeOf(req[h][1]) = GameTimeOf(game_state[1]))
          => /\ Len(perf_tracker'.gpm_samples) = Len(perf_tracker.gpm_samples)
             /\ Len(perf_tracker'.xpm_samples) = Len(perf_tracker.xpm_samples)
             /\ Len(perf_tracker'.last_hits_samples)
                    = Len(perf_tracker.last_hits_samples)
             /\ EventCount(team_fight_analyzer') = EventCount(team_fight_analyzer)]_vars

-----------------------------------------------------------------------------
(* Claims about TeamFightAnalyzer::update *)

\* the snapshot carries a player with a kill list
CarriesKillList(gs) == IsSome(gs.player) /\ IsSome(gs.player[1].kill_list)

\* both snapshots of a call carry a kill list
BothCarryKillLists(state, last_state) ==
    /\ CarriesKillList(state)
    /\ IsSome(last_state)
    /\ CarriesKillList(last_state[1])

\* the victim keys of the current kill list
VictimKeys(state) == DOMAIN state.player[1].kill_list[1]

\* current counter minus previous counter, a key absent from previous counting as 0
KeyRise(state, last_state, v) ==
    LET previous == last_state[1].player[1].kill_list[1]
    IN  state.player[1].kill_list[1][v]
        - (IF v \in DOMAIN previous THEN previous[v] ELSE 0)

\* some counter of the call strictly increased
CarriesIncrement(state, last_state) ==
    /\ BothCarryKillLists(state, last_state)
    /\ \E v \in VictimKeys(state) : KeyRise(state, last_state, v) > 0

RECURSIVE SetSum(_, _)
SetSum(f, S) ==
    IF S = {} THEN 0
    ELSE LET x == CHOOSE y \in S : TRUE IN f[x] + SetSum(f, S \ {x})

\* the list of one enemy name; empty when the name has no list
DeathsOf(enemy_deaths, n) == IF n \in DOMAIN enemy_deaths THEN enemy_deaths[n] ELSE <<>>

\* from `before` to `after`, exactly `count[n]` entries stamped t were appended
\* to the list of every name n, and no other list changed
AppendedExactly(before, after, count, t) ==
    /\ DOMAIN before \subseteq DOMAIN after
    /\ \A n \in DOMAIN after \cup DOMAIN count :
           DeathsOf(after, n)
           = DeathsOf(before, n) \o Repeat(t, IF n \in DOMAIN count THEN count[n] ELSE 0)

\* per enemy name, the units by which the counters of its victim keys rose
UnitsPerName(state, last_state) ==
    LET keys == VictimKeys(state)
        units == [v \in keys |->
                     IF KeyRise(state, last_state, v) > 0
                     THEN KeyRise(state, last_state, v) ELSE 0]
    IN  [n \in {EnemyName(v) : v \in keys} |->
            SetSum(units, {v \in keys : EnemyName(v) = n})]

\* per enemy name, the number of its victim keys whose counter rose
RisenKeysPerName(state, last_state) ==
    LET keys == VictimKeys(state)
    IN  [n \in {EnemyName(v) : v \in keys} |->
            Cardinality({v \in keys :
                            EnemyName(v) = n /\ KeyRise(state, last_state, v) > 0})]

NoCount == [n \in {} |-> 0]

\* Every step of these specifications is one update call, whose arguments
\* are arg_state' and arg_last'.

\* C5 as stated: an update whose two snapshots carry kill lists appends, for
\* every victim key whose counter rose by N >= 1, exactly N events stamped with
\* the current game clock to that victim's list, and nothing for any other key.
C5_OneEventPerUnit ==
    [][(IsSome(arg_state') /\ BothCarryKillLists(arg_state'[1], arg_last'))
       => AppendedExactly(team_fight_analyzer.enemy_deaths,
                          team_fight_analyzer'.enemy_deaths,
                          UnitsPerName(arg_state'[1], arg_last'),
                          GameTimeOf(arg_state'[1]))]_vars

\* C5 amended: an update whose two snapshots carry kill lists appends, for
\* every victim key whose counter strictly increased, exactly one event stamped
\* with the current game clock to the list of the enemy name derived from the
\* key, whatever the size of the increase, and nothing for a key whose counter
\* did not strictly increase; an update in which either snapshot lacks the
\* player or the kill list appends no elimination event.
C5_OneEventPerRisenKey ==
    [][IsSome(arg_state')
       => AppendedExactly(team_fight_analyzer.enemy_deaths,
                          team_fight_analyzer'.enemy_deaths,
                          IF BothCarryKillLists(arg_state'[1], arg_last')
                          THEN RisenKeysPerName(arg_state'[1], arg_last') ELSE NoCount,
                          GameTimeOf(arg_state'[1]))]_vars

\* C5 witness: the latest call carried a counter that rose by two, and the
\* analyzer recorded one event for it.
C5_Witness ==
    /\ IsSome(arg_state)
    /\ BothCarryKillLists(arg_state[1], arg_last)
    /\ \E v \in VictimKeys(arg_state[1]) :
           /\ KeyRise(arg_state[1], arg_last, v) = 2
           /\ Len(DeathsOf(team_fight_analyzer.enemy_deaths, EnemyName(v))) = 1
    /\ EventCount(team_fight_analyzer) = 1

\* the elimination entries an analyzer has recorded, as <<name, index>>
KillEntries(analyzer) ==
    UNION {{<<n, i>> : i \in 1..Len(analyzer.enemy_deaths[n])} :
              n \in DOMAIN analyzer.enemy_deaths}

\* the recorded events (deaths and eliminations) stamped at or after `from`
EventsSince(analyzer, from) ==
    Cardinality({i \in 1..Len(analyzer.player_deaths) : analyzer.player_deaths[i] >= from})
    + Cardinality({e \in KillEntries(analyzer) :
                      analyzer.enemy_deaths[e[1]][e[2]] >= from})

\* C10: the detector starts Calm; an update at clock t turns Calm into Engaged
\* exactly when t - (time of the most recent event) < 15 and at least 3
\* recorded events are stamped t - 30 or later; it turns Engaged into Calm
\* exactly when t - (time of the most recent event) >= 15; the time of the
\* most recent event is t when the update recorded an event.
C10_Transitions ==
    /\ team_fight_analyzer.team_fight_detected = FALSE
    /\ [][IsSome(arg_state')
            => LET t == GameTimeOf(arg_state'[1])
                   before == team_fight_analyzer
                   after == team_fight_analyzer'
                   recent == IF EventCount(after) > EventCount(before) THEN t
                             ELSE before.last_kill_time
               IN  /\ after.last_kill_time = recent
                   /\ (~before.team_fight_detected /\ after.team_fight_detected)
                      <=> (/\ ~before.team_fight_detected
                           /\ t - recent < 15
                           /\ EventsSince(after, t - 30) >= 3)
                   /\ (before.team_fight_detected /\ ~after.team_fight_detected)
                      <=> (before.team_fight_detected /\ t - recent >= 15)]_vars

\* C10 witness: three events are on record and the latest update recorded the
\* third, so the most recent event is 0 seconds old, but the first is more
\* than 30 seconds older than the snapshot and the detector is Calm.
C10_Witness ==
    /\ IsSome(arg_state)
    /\ ~team_fight_analyzer.team_fight_detected
    /\ team_fight_analyzer.team_fight_start = 0
    /\ EventCount(team_fight_analyzer) = 3
    /\ team_fight_analyzer.last_kill_time = GameTimeOf(arg_state[1])
    /\ EventsSince(team_fight_analyzer, GameTimeOf(arg_state[1]) - 30) = 2

\* the detector was Engaged and the latest update, 15 seconds after the most
\* recent event, turned it back to Calm
CalmAfterQuietTime ==
    /\ IsSome(arg_state)
    /\ ~team_fight_analyzer.team_fight_detected
    /\ team_fight_analyzer.team_fight_start > 0
    /\ EventCount(team_fight_analyzer) >= 3
    /\ GameTimeOf(arg_state[1]) - team_fight_analyzer.last_kill_time = 15

\* the detector was Engaged and the latest update, 14 seconds after the most
\* recent event, left it Engaged
EngagedInsideQuietTime ==
    /\ IsSome(arg_state)
    /\ team_fight_analyzer.team_fight_detected
    /\ GameTimeOf(arg_state[1]) - team_fight_analyzer.last_kill_time = 14

\* an Engaged detector recorded a further event, at a later clock than the
\* start of the fight, and is still Engaged
EngagedTookEvent ==
    /\ IsSome(arg_state)
    /\ team_fight_analyzer.team_fight_detected
    /\ team_fight_analyzer.team_fight_start < GameTimeOf(arg_state[1])
    /\ team_fight_analyzer.last_kill_time = GameTimeOf(arg_state[1])
    /\ EventCount(team_fight_analyzer) >= 4

\* the stamps of the recorded eliminations
KillStamps(analyzer) ==
    {analyzer.enemy_deaths[e[1]][e[2]] : e \in KillEntries(analyzer)}

\* at least three eliminations are stamped within one 20-second span around t
ThreeKillsWithin20(analyzer, t) ==
    \E lo \in KillStamps(analyzer) \cup {t} :
        /\ lo <= t
        /\ t <= lo + 20
        /\ Cardinality({e \in KillEntries(analyzer) :
                           /\ analyzer.enemy_deaths[e[1]][e[2]] >= lo
                           /\ analyzer.enemy_deaths[e[1]][e[2]] <= lo + 20}) >= 3

\* the call carries no event: no counter rose and the hero is not reported dead
CarriesNoEvent(state, last_state) ==
    /\ ~CarriesIncrement(state, last_state)
    /\ ~KnownDead(Some(state))

\* C4: after an update that carries a counter increment, when three recorded
\* eliminations (this one included) are stamped within a 20-second span the
\* detector is Engaged; after an update that carries no event and whose clock
\* is 16 seconds past the last event, the detector is Calm.
C4_EngageThenCalm ==
    IsSome(arg_state) =>
        /\ (/\ CarriesIncrement(arg_state[1], arg_last)
            /\ ThreeKillsWithin20(team_fight_analyzer, GameTimeOf(arg_state[1])))
           => team_fight_analyzer.team_fight_detected
        /\ (/\ CarriesNoEvent(arg_state[1], arg_last)
            /\ GameTimeOf(arg_state[1]) = team_fight_analyzer.last_kill_time + 16)
           => ~team_fight_analyzer.team_fight_detected

\* C4 witness: three eliminations within 20 seconds made the detector Engaged
\* at the third one, and an update without events 16 seconds later left it Calm.
C4_Witness ==
    /\ IsSome(arg_state)
    /\ CarriesNoEvent(arg_state[1], arg_last)
    /\ GameTimeOf(arg_state[1]) = team_fight_analyzer.last_kill_time + 16
    /\ Cardinality(KillEntries(team_fight_analyzer)) = 3
    /\ Cardinality(KillStamps(team_fight_analyzer)) >= 2
    /\ ThreeKillsWithin20(team_fight_analyzer, team_fight_analyzer.last_kill_time)
    /\ team_fight_analyzer.team_fight_start = team_fight_analyzer.last_kill_time
    /\ ~team_fight_analyzer.team_fight_detected

-----------------------------------------------------------------------------
(* Claims about EnemyPositionTracker::update *)

\* the history of one hero; empty when the hero has none
HistoryOf(tracker, n) ==
    IF n \in DOMAIN tracker.positions THEN tracker.positions[n] ELSE <<>>

\* every history holds at most 100 positions, in non-decreasing clock order
HistoriesBounded(tracker) ==
    \A n \in DOMAIN tracker.positions :
        LET h == tracker.positions[n]
        IN  /\ Len(h) <= 100
            /\ \A i \in 1..Len(h) - 1 : h[i][1] <= h[i + 1][1]

\* the records of the snapshot that update takes a position from for hero n
SeenCount(state, n) ==
    IF IsNone(state.minimap) THEN 0
    ELSE LET minimap == state.minimap[1]
         IN  Cardinality({i \in 1..Len(minimap) :
                 /\ IsTracked(minimap[i], EnemyTeamId(state))
                 /\ format_hero_name(minimap[i].name[1]) = n})

\* `after` is `before` followed by k entries stamped t, without as many of
\* its first entries as it takes to hold at most 100
OldestEvictedFirst(before, after, t, k) ==
    LET total == Len(before) + k
        d == IF total > 100 THEN total - 100 ELSE 0
        kept == Len(before) - d
    IN  /\ Len(after) = total - d
        /\ SubSeq(after, 1, kept) = SubSeq(before, d + 1, Len(before))
        /\ \A i \in kept + 1..Len(after) : after[i][1] = t

\* C7: every history holds at most 100 positions whose game clocks are
\* non-decreasing in insertion order, and an update with a newer snapshot
\* appends one position per record of the hero and evicts from the front: the
\* new history is the old one followed by the new positions, without its
\* oldest entries when that is longer than 100.
C7_HistoryBounded ==
    /\ []HistoriesBounded(enemy_tracker)
    /\ [][(IsSome(arg_state')
           /\ GameTimeOf(arg_state'[1]) > enemy_tracker.last_game_time)
          => \A n \in DOMAIN enemy_tracker'.positions :
                 OldestEvictedFirst(HistoryOf(enemy_tracker, n),
                                    HistoryOf(enemy_tracker', n),
                                    GameTimeOf(arg_state'[1]),
                                    SeenCount(arg_state'[1], n))]_vars

\* C7 witness: a full history that lost its oldest positions and ends with
\* two positions of one snapshot (two records with the same name).
C7_Witness ==
    \E n \in DOMAIN enemy_tracker.positions :
        LET h == enemy_tracker.positions[n]
        IN  /\ Len(h) = 100
            /\ h[1][1] > 1
            /\ h[99][1] = h[100][1]
            /\ h[99][2] # h[100][2]

\* C8: an update with a snapshot whose game clock is at most the tracker's
\* last-processed clock leaves every history and the last-processed clock as
\* they were.
C8_StaleUpdateIsNoOp ==
    [][(IsSome(arg_state')
        /\ GameTimeOf(arg_state'[1]) <= enemy_tracker.last_game_time)
       => enemy_tracker' = enemy_tracker]_vars

\* C8 witness: the latest snapshot was older than the last-processed clock and
\* carried an enemy icon of a hero the tracker already follows.
C8_Witness ==
    /\ IsSome(arg_state)
    /\ GameTimeOf(arg_state[1]) < enemy_tracker.last_game_time
    /\ IsSome(arg_state[1].minimap)
    /\ \E i \in 1..Len(arg_state[1].minimap[1]) :
           LET obj == arg_state[1].minimap[1][i]
           IN  /\ obj.image = "minimap_enemyicon"
               /\ obj.team = 3
               /\ obj.name = Some(AxeName)
    /\ Len(HistoryOf(enemy_tracker, <<"Axe">>)) >= 1

-----------------------------------------------------------------------------
(* Claims about HeroPerformanceTracker::display_metrics *)

\* the report contains a line with this text
HasLine(text) == \E i \in 1..Len(output.lines) : output.lines[i].text = text

\* output is the report of the sampler as it is now, and the GPM series
\* holds at least 2 samples
GpmReported ==
    /\ output.op = "display_metrics"
    /\ Len(perf_tracker.gpm_samples) >= 2

LatestGpm == Last(perf_tracker.gpm_samples)[2]

GpmCount == Len(perf_tracker.gpm_samples)

GpmSum == SumValues(perf_tracker.gpm_samples)

\* x compared with m, the mean of the series rounded down to an integer (for
\* the non-negative samples of a resource rate, the integer division of the
\* sum by the count): x > m, x < m and x = m
AboveMeanFloor(x) == x * GpmCount > GpmSum

BelowMeanFloor(x) == (x + 1) * GpmCount <= GpmSum

AtMeanFloor(x) == ~AboveMeanFloor(x) /\ ~BelowMeanFloor(x)

\* C9 as stated: a latest value >= mean + 100 gives the "trending up
\* significantly" line and a latest value <= mean - 100 gives the "trending
\* down significantly" line, the boundaries included (mean is the exact mean
\* of the retained samples: latest >= mean + 100 is
\* latest * count >= sum + 100 * count).
C9_SignificantAtBoundary ==
    GpmReported
    => /\ LatestGpm * GpmCount >= GpmSum + 100 * GpmCount
          => HasLine("GPM trending up significantly!")
       /\ LatestGpm * GpmCount <= GpmSum - 100 * GpmCount
          => HasLine("GPM trending down significantly")

\* C9 amended: with m the mean of the retained samples rounded down to an
\* integer, the report contains the "trending up significantly" line exactly
\* when latest > m + 100 and the "trending down significantly" line exactly
\* when latest < m - 100; at latest = m + 100 it contains the "trending up"
\* line and at latest = m - 100 the "trending down" line instead.
C9_SignificantBeyondBoundary ==
    GpmReported
    => /\ HasLine("GPM trending up significantly!") <=> AboveMeanFloor(LatestGpm - 100)
       /\ HasLine("GPM trending down significantly") <=> BelowMeanFloor(LatestGpm + 100)
       /\ AtMeanFloor(LatestGpm - 100) => HasLine("GPM trending up")
       /\ AtMeanFloor(LatestGpm + 100) => HasLine("GPM trending down")

\* C9 witness: a report of a two-sample series whose latest value is exactly
\* the mean plus 100, with the "trending up" line.
C9_Witness ==
    /\ GpmReported
    /\ GpmCount = 2
    /\ LatestGpm * GpmCount = GpmSum + 100 * GpmCount
    /\ HasLine("GPM trending up")
    /\ ~HasLine("GPM trending up significantly!")

-----------------------------------------------------------------------------
(* Claims about the snapshot store under requests that do not overlap *)

\* no request is inside the closure
Quiescent == \A h \in Handlers : pc[h] = "idle"

\* C11: with requests that do not overlap, whenever no request is in progress
\* current is the snapshot ingested last and previous the one ingested before
\* it (none when fewer than two were ingested); the step that completes a
\* request stores exactly the snapshot the request carried, after the ones
\* stored before, and leaves the former current as previous.
C11_StoreHoldsLastTwo ==
    /\ [](Quiescent
          => /\ game_state = (IF Len(stored) = 0 THEN None ELSE Some(Last(stored)))
             /\ last_game_state =
                    (IF Len(stored) <= 1 THEN None ELSE Some(stored[Len(stored) - 1])))
    /\ [][\A h \in Handlers :
             (pc[h] = "store_current" /\ pc'[h] = "idle")
             => /\ game_state' = req[h]
                /\ last_game_state' = game_state
                /\ stored' = Append(stored, req[h][1])]_vars

\* C11 witness: three requests were made, one of them rejected, and the two
\* different snapshots of the others are held as current and previous.
C11_Witness ==
    /\ Quiescent
    /\ steps = 3
    /\ Len(stored) = 2
    /\ stored[1] # stored[2]
    /\ game_state = Some(stored[2])
    /\ last_game_state = Some(stored[1])

-----------------------------------------------------------------------------
(* Claims about EnemyPositionTracker::predict_movements *)

\* output is what predict_movements returned for the tracker as it is now
Predicted == output.op = "predict_movements"

\* the heroes of the predictions
PredictedHeroes == {output.lines[i][1] : i \in 1..Len(output.lines)}

\* the predictions made for hero n
PredictionsOf(n) ==
    {output.lines[i][2] : i \in {j \in 1..Len(output.lines) : output.lines[j][1] = n}}

LatestOf(n) == enemy_tracker.positions[n][Len(enemy_tracker.positions[n])]

SecondLastOf(n) == enemy_tracker.positions[n][Len(enemy_tracker.positions[n]) - 1]

\* the clock delta of the two most recent samples of n
DeltaOf(n) == LatestOf(n)[1] - SecondLastOf(n)[1]

\* the displacement of coordinate c between the two most recent samples of n
\* times the seconds since the latest
ScaledMove(n, c) ==
    (LatestOf(n)[2][c] - SecondLastOf(n)[2][c]) * (output.at - LatestOf(n)[1])

\* the two most recent samples of n are (t0, (0, 0)) and (t1, (10, 0)), and
\* the prediction was asked for t1 + (t1 - t0)
StraightLineCase(n) ==
    /\ n \in DOMAIN enemy_tracker.positions
    /\ Len(enemy_tracker.positions[n]) >= 2
    /\ SecondLastOf(n)[2] = <<0, 0>>
    /\ LatestOf(n)[2] = <<10, 0>>
    /\ DeltaOf(n) > 0
    /\ output.at = LatestOf(n)[1] + DeltaOf(n)

\* C12 as stated: every prediction is, per coordinate, the latest position
\* plus displacement * (now - t1) / (t1 - t0) truncated toward zero.
C12_ExactExtrapolation ==
    Predicted
    => \A n \in PredictedHeroes : \A p \in PredictionsOf(n) : \A c \in {1, 2} :
           p[c] = LatestOf(n)[2][c] + TruncDiv(ScaledMove(n, c), DeltaOf(n))

\* What predict_movements guarantees instead: the straight-line case is
\* predicted at (20, 0).  In general the prediction is, per coordinate, the
\* latest position plus the quotient truncated toward zero whenever
\* displacement * (now - t1) is no multiple of (t1 - t0); when it is a
\* multiple, the single-precision product can fall short of the quotient, and
\* the prediction is that quotient or one unit nearer to the latest position.
C12_SinglePrecisionExtrapolation ==
    Predicted
    => /\ \A n \in DOMAIN enemy_tracker.positions :
              StraightLineCase(n) => PredictionsOf(n) = {<<20, 0>>}
       /\ \A n \in PredictedHeroes : \A p \in PredictionsOf(n) : \A c \in {1, 2} :
              LET exact == TruncDiv(ScaledMove(n, c), DeltaOf(n))
                  moved == p[c] - LatestOf(n)[2][c]
              IN  IF ScaledMove(n, c) % DeltaOf(n) # 0 THEN moved = exact
                  ELSE moved = exact \/ moved = exact - Sign(exact)

\* The shortfall happens: a hero seen at (0, 0) and 3 seconds later at (27, -54) is
\* predicted 7 seconds after that at (27 + 62, -54 - 125), where the exact
\* quotients are 63 and -126.
ShortfallReached ==
    /\ Predicted
    /\ \E n \in PredictedHeroes :
           /\ SecondLastOf(n)[2] = <<0, 0>>
           /\ LatestOf(n)[2] = <<27, -54>>
           /\ DeltaOf(n) = 3
           /\ output.at = LatestOf(n)[1] + 7
           /\ PredictionsOf(n) = {<<89, -179>>}

\* C13: predict_movements returns a prediction for a hero exactly when its
\* history holds at least 2 samples, the latest of them is at most 30 seconds
\* before the game time asked for, and the clock delta of the two most recent
\* samples is strictly positive; it returns at most one prediction per hero
\* and none for anything that is not a tracked hero.
C13_PredictsOnlyOnPositiveDelta ==
    Predicted
    => /\ \A n \in DOMAIN enemy_tracker.positions :
              n \in PredictedHeroes
              <=> /\ Len(enemy_tracker.positions[n]) >= 2
                  /\ output.at - LatestOf(n)[1] <= 30
                  /\ DeltaOf(n) > 0
       /\ PredictedHeroes \subseteq DOMAIN enemy_tracker.positions
       /\ Len(output.lines) = Cardinality(PredictedHeroes)

\* C13 witness: a hero seen within the last 30 seconds whose two most recent
\* samples carry the same clock is left out of the predictions, and so is a
\* hero with a single sample.
C13_Witness ==
    /\ Predicted
    /\ \E n \in DOMAIN enemy_tracker.positions :
           /\ Len(enemy_tracker.positions[n]) >= 2
           /\ DeltaOf(n) = 0
           /\ output.at - LatestOf(n)[1] <= 30
           /\ n \notin PredictedHeroes
    /\ \E n \in DOMAIN enemy_tracker.positions :
           /\ Len(enemy_tracker.positions[n]) = 1
           /\ n \notin PredictedHeroes

-----------------------------------------------------------------------------
(* Claims about the records EnemyPositionTracker::update takes *)

\* the snapshot carries no team for the player
TeamAbsent(state) ==
    IsNone(state.player) \/ IsNone(state.player[1].team_name)

\* the enemy-icon records of team `team` that carry a name displayed as n
IconCount(state, team, n) ==
    IF IsNone(state.minimap) THEN 0
    ELSE LET minimap == state.minimap[1]
         IN  Cardinality({i \in 1..Len(minimap) :
                 /\ minimap[i].image = "minimap_enemyicon"
                 /\ minimap[i].team = team
                 /\ IsSome(minimap[i].name)
                 /\ format_hero_name(minimap[i].name[1]) = n})

\* the names under which the snapshot's records are displayed
DisplayNames(state) ==
    IF IsNone(state.minimap) THEN {}
    ELSE {format_hero_name(state.minimap[1][i].name[1]) :
             i \in {j \in 1..Len(state.minimap[1]) : IsSome(state.minimap[1][j].name)}}

\* update appended, for every hero, one position per enemy icon of `team`
TakesIconsOf(team) ==
    \A n \in DOMAIN enemy_tracker'.positions \cup DisplayNames(arg_state'[1]) :
        OldestEvictedFirst(HistoryOf(enemy_tracker, n), HistoryOf(enemy_tracker', n),
                           GameTimeOf(arg_state'[1]), IconCount(arg_state'[1], team, n))

\* an update with a newer snapshot that carries no team for the player
AcceptedWithoutTeam ==
    /\ IsSome(arg_state')
    /\ GameTimeOf(arg_state'[1]) > enemy_tracker.last_game_time
    /\ TeamAbsent(arg_state'[1])

\* C14 as stated: when the snapshot carries no team for the player, update
\* records the enemy icons of team 3 and ignores those of team 2.
C14_DefaultsToTeam3 == [][AcceptedWithoutTeam => TakesIconsOf(3)]_vars

\* C14 amended: when the snapshot carries no team for the player, update
\* records the enemy icons of team 2 and ignores those of team 3.
C14_DefaultsToTeam2 == [][AcceptedWithoutTeam => TakesIconsOf(2)]_vars

\* C14 witness: the latest update had no team for the player and a minimap
\* with an Axe icon of team 3 and a Lina icon of team 2; Lina's position was
\* recorded and Axe's was not.
C14_Witness ==
    /\ IsSome(arg_state)
    /\ TeamAbsent(arg_state[1])
    /\ GameTimeOf(arg_state[1]) = enemy_tracker.last_game_time
    /\ IconCount(arg_state[1], 3, <<"Axe">>) = 1
    /\ IconCount(arg_state[1], 2, <<"Lina">>) = 1
    /\ <<"Lina">> \in DOMAIN enemy_tracker.positions
    /\ Last(enemy_tracker.positions[<<"Lina">>])[1] = GameTimeOf(arg_state[1])
    /\ \/ <<"Axe">> \notin DOMAIN enemy_tracker.positions
       \/ Last(enemy_tracker.positions[<<"Axe">>])[1] < GameTimeOf(arg_state[1])

\* the team whose icons update takes: 3 when the player's team, lower-cased,
\* is "radiant", else 2
OpposingTeam(state) ==
    IF ~TeamAbsent(state) /\ LowercaseTeam(state.player[1].team_name[1]) = "radiant"
    THEN 3 ELSE 2

\* the positions of the enemy-icon records of `team` displayed as n
IconPositions(state, team, n) ==
    IF IsNone(state.minimap) THEN {}
    ELSE LET minimap == state.minimap[1]
         IN  {<<minimap[i].xpos, minimap[i].ypos>> :
                 i \in {j \in 1..Len(minimap) :
                     /\ minimap[j].image = "minimap_enemyicon"
                     /\ minimap[j].team = team
                     /\ IsSome(minimap[j].name)
                     /\ format_hero_name(minimap[j].name[1]) = n}}

\* the positions of the last k entries of a history
NewestPositions(h, k) == {h[i][2] : i \in {j \in 1..Len(h) : j > Len(h) - k}}

\* an update with a snapshot newer than the last one processed
Accepted ==
    /\ IsSome(arg_state')
    /\ GameTimeOf(arg_state'[1]) > enemy_tracker.last_game_time

\* C15 as stated: an accepted update appends exactly one sample for each
\* distinct display name among the enemy-icon records of the opposing team,
\* and nothing for any other record.
C15_OneSamplePerName ==
    [][Accepted
       => LET state == arg_state'[1]
              team == OpposingTeam(state)
          IN  \A n \in DOMAIN enemy_tracker'.positions \cup DisplayNames(state) :
                  OldestEvictedFirst(
                      HistoryOf(enemy_tracker, n), HistoryOf(enemy_tracker', n),
                      GameTimeOf(state),
                      IF IconCount(state, team, n) > 0 THEN 1 ELSE 0)]_vars

\* C15 amended: an accepted update appends exactly one sample, stamped with
\* the snapshot's clock and holding the record's position, for each
\* enemy-icon record of the opposing team that has a name, so a display name
\* that occurs k times gets k samples; it appends nothing for a record with a
\* different tag, a different team id or no name.
C15_OneSamplePerRecord ==
    [][Accepted
       => LET state == arg_state'[1]
              team == OpposingTeam(state)
          IN  \A n \in DOMAIN enemy_tracker'.positions \cup DisplayNames(state) :
                  LET k == IconCount(state, team, n)
                  IN  /\ OldestEvictedFirst(
                             HistoryOf(enemy_tracker, n), HistoryOf(enemy_tracker', n),
                             GameTimeOf(state), k)
                      /\ NewestPositions(HistoryOf(enemy_tracker', n), k)
                             = IconPositions(state, team, n)]_vars

\* C15 witness: the latest update carried two enemy icons displayed as Axe,
\* and Axe's history ends with their two positions, both stamped with the
\* snapshot's clock.
C15_Witness ==
    /\ IsSome(arg_state)
    /\ GameTimeOf(arg_state[1]) = enemy_tracker.last_game_time
    /\ IconCount(arg_state[1], OpposingTeam(arg_state[1]), <<"Axe">>) = 2
    /\ <<"Axe">> \in DOMAIN enemy_tracker.positions
    /\ LET h == enemy_tracker.positions[<<"Axe">>]
       IN  /\ Len(h) >= 2
           /\ h[Len(h)][1] = enemy_tracker.last_game_time
           /\ h[Len(h) - 1][1] = enemy_tracker.last_game_time
           /\ h[Len(h)][2] # h[Len(h) - 1][2]

-----------------------------------------------------------------------------
(* Claims about EnemyPositionTracker::get_movement_descriptions *)

Described == output.op = "get_movement_descriptions"

\* the index of the "Last seen" line of hero n in the report, 0 when absent
SeenLineOf(n) ==
    LET at == {i \in 1..Len(output.lines) :
                  /\ output.lines[i].text = "{}: Last seen {} seconds ago at ({}, {})"
                  /\ output.lines[i].args[1] = n}
    IN  IF at = {} THEN 0 ELSE CHOOSE i \in at : TRUE

\* the hero has at least two samples and its "Last seen" line is in the report
MovementDescribed(n) ==
    /\ Len(enemy_tracker.positions[n]) >= 2
    /\ SeenLineOf(n) > 0

\* the line after the "Last seen" line of n reports direction d
MovingLine(n, d) ==
    /\ SeenLineOf(n) < Len(output.lines)
    /\ output.lines[SeenLineOf(n) + 1] = Line("Moving {}", <<d>>)

MoveX(n) == LatestOf(n)[2][1] - SecondLastOf(n)[2][1]

MoveY(n) == LatestOf(n)[2][2] - SecondLastOf(n)[2][2]

\* C16 as stated: the horizontal direction is reported whenever |dx| >= |dy|
\* (East for dx > 0, West for dx < 0) and the vertical direction only when
\* |dy| > |dx|; a tie is reported on the horizontal axis.
C16_TieIsHorizontal ==
    Described
    => \A n \in DOMAIN enemy_tracker.positions :
           MovementDescribed(n)
           => /\ (Abs(MoveX(n)) >= Abs(MoveY(n)) /\ MoveX(n) > 0) => MovingLine(n, "East")
              /\ (Abs(MoveX(n)) >= Abs(MoveY(n)) /\ MoveX(n) < 0) => MovingLine(n, "West")
              /\ (Abs(MoveY(n)) > Abs(MoveX(n)) /\ MoveY(n) > 0) => MovingLine(n, "North")
              /\ (Abs(MoveY(n)) > Abs(MoveX(n)) /\ MoveY(n) < 0) => MovingLine(n, "South")

\* C16 amended: the horizontal direction is reported only when |dx| > |dy|
\* (East for dx > 0, West for dx < 0); whenever |dy| >= |dx| the vertical
\* direction is reported, North for dy > 0 and South otherwise, so a tie is
\* reported on the vertical axis and a hero that did not move as South.
C16_TieIsVertical ==
    Described
    => \A n \in DOMAIN enemy_tracker.positions :
           MovementDescribed(n)
           => /\ (Abs(MoveX(n)) > Abs(MoveY(n)) /\ MoveX(n) > 0) => MovingLine(n, "East")
              /\ (Abs(MoveX(n)) > Abs(MoveY(n)) /\ MoveX(n) < 0) => MovingLine(n, "West")
              /\ (Abs(MoveY(n)) >= Abs(MoveX(n)) /\ MoveY(n) > 0) => MovingLine(n, "North")
              /\ (Abs(MoveY(n)) >= Abs(MoveX(n)) /\ MoveY(n) <= 0) => MovingLine(n, "South")

\* C16 witness: a hero that moved by (10, 10) is reported as moving North.
C16_Witness ==
    /\ Described
    /\ \E n \in DOMAIN enemy_tracker.positions :
           /\ MovementDescribed(n)
           /\ MoveX(n) = 10
           /\ MoveY(n) = 10
           /\ MovingLine(n, "North")

-----------------------------------------------------------------------------
(* Claims about TeamFightAnalyzer::get_team_fight_status *)

StatusReported == output.op = "get_team_fight_status"

\* C17: get_team_fight_status(now) returns the fight advisory, with now minus
\* the start of the fight as its duration, when the analyzer is in a fight;
\* only the skirmish advisory when it is not and at least 2 recorded events
\* are stamped now - 60 or later; nothing otherwise.  The two advisories are
\* never returned together.
C17_StatusAdvisories ==
    StatusReported
    => /\ team_fight_analyzer.team_fight_detected
          => output.lines
                 = <<Line("TEAM FIGHT IN PROGRESS!", <<>>),
                     Line("Started {} seconds ago",
                          <<output.at - team_fight_analyzer.team_fight_start>>)>>
       /\ (/\ ~team_fight_analyzer.team_fight_detected
           /\ EventsSince(team_fight_analyzer, output.at - 60) >= 2)
          => output.lines
                 = <<Line("Skirmishes detected - team fight may be developing!", <<>>)>>
       /\ (/\ ~team_fight_analyzer.team_fight_detected
           /\ EventsSince(team_fight_analyzer, output.at - 60) < 2)
          => output.lines = <<>>

\* C17 witness: a fight that started at 5 has ended and, asked at 65, exactly
\* 60 seconds after its events, the analyzer returns the skirmish advisory.
C17_Witness ==
    /\ StatusReported
    /\ ~team_fight_analyzer.team_fight_detected
    /\ team_fight_analyzer.team_fight_start = 5
    /\ team_fight_analyzer.last_kill_time = 5
    /\ output.at = 65
    /\ Len(output.lines) = 1

\* the fight advisory is returned too: asked at 36 about a fight that started
\* at 20, the analyzer reports 16 seconds
FightAdvisoryReached ==
    /\ StatusReported
    /\ team_fight_analyzer.team_fight_detected
    /\ team_fight_analyzer.team_fight_start = 20
    /\ output.at = 36
    /\ output.lines[2].args = <<16>>

-----------------------------------------------------------------------------
(* Claims about HeroPerformanceTracker::update *)

\* the last 20 entries of a series
Newest20(series) ==
    IF Len(series) > 20 THEN SubSeq(series, Len(series) - 19, Len(series)) ELSE series

\* the value of a field of the snapshot's player, None without a player
Carried(state, field) ==
    IF IsNone(state.player) THEN None ELSE state.player[1][field]

\* `after` is `before` followed by the snapshot's value when the snapshot
\* carries one, cut to its newest 20 entries
SeriesFollows(before, after, state, field) ==
    after = IF IsSome(Carried(state, field))
            THEN Newest20(Append(before, <<GameTimeOf(state), Carried(state, field)[1]>>))
            ELSE before

\* C18: each of the three series holds at most 20 samples; an update appends
\* the snapshot's value to a series only when the snapshot carries it, and
\* when that makes 21 samples the oldest one is dropped, so a series is always
\* the newest (at most 20) samples appended to it, in insertion order.
C18_SeriesKeepNewest20 ==
    /\ [](/\ Len(perf_tracker.gpm_samples) <= 20
          /\ Len(perf_tracker.xpm_samples) <= 20
          /\ Len(perf_tracker.last_hits_samples) <= 20)
    /\ [][steps' = steps + 1
          => /\ SeriesFollows(perf_tracker.gpm_samples, perf_tracker'.gpm_samples,
                              arg_state'[1], "gpm")
             /\ SeriesFollows(perf_tracker.xpm_samples, perf_tracker'.xpm_samples,
                              arg_state'[1], "xpm")
             /\ SeriesFollows(perf_tracker.last_hits_samples,
                              perf_tracker'.last_hits_samples,
                              arg_state'[1], "last_hits")]_vars

\* C18 witness: the latest update carried a gpm value and no xpm value; the
\* gpm series holds 20 samples, has lost its oldest one and ends with the new
\* sample, and the xpm series did not get a sample.
C18_Witness ==
    /\ IsSome(arg_state)
    /\ IsSome(Carried(arg_state[1], "gpm"))
    /\ IsNone(Carried(arg_state[1], "xpm"))
    /\ Len(perf_tracker.gpm_samples) = 20
    /\ perf_tracker.gpm_samples[1][1] > 1
    /\ perf_tracker.gpm_samples[20] = <<GameTimeOf(arg_state[1]), Carried(arg_state[1], "gpm")[1]>>
    /\ Len(perf_tracker.xpm_samples) >= 1
    /\ Last(perf_tracker.xpm_samples)[1] # GameTimeOf(arg_state[1])

-----------------------------------------------------------------------------
(* Claims about payloads that are no snapshot *)

\* the step answers a request whose payload is no snapshot: the request is
\* counted and no handler takes it up
DropsPayload == steps' = steps + 1 /\ pc' = pc

\* the store and the three trackers
StoreAndTrackers ==
    <<game_state, last_game_state, enemy_tracker, perf_tracker, team_fight_analyzer>>

\* C19: a request whose payload is no snapshot leaves the current snapshot,
\* the previous snapshot and the three trackers exactly as they were, and no
\* handler keeps the payload for a later step; every step that changes one of
\* the five is a step of a handler that carries a snapshot.
C19_BadPayloadIsDropped ==
    [][/\ DropsPayload => UNCHANGED <<StoreAndTrackers, req>>
       /\ StoreAndTrackers' # StoreAndTrackers
          => \E h \in Handlers : IsSome(req[h]) /\ pc'[h] # pc[h]]_vars

\* C19 witness: of three requests one carried no snapshot; the two others are
\* held as current and previous and were sampled.
C19_Witness ==
    /\ steps = 3
    /\ \A h \in Handlers : pc[h] = "idle"
    /\ Len(stored) = 2
    /\ game_state = Some(stored[2])
    /\ last_game_state = Some(stored[1])
    /\ game_state # last_game_state
    /\ Len(perf_tracker.gpm_samples) = 2
    /\ enemy_tracker.last_game_time > 0

-----------------------------------------------------------------------------
(* Claims about the lock scopes of the ingestion path *)

\* the statements that call into a tracker or into DebugMode::save_game_state
TrackerOrDebugWork == {"save", "enemy", "perf", "team_fight"}

\* the mutexes of the snapshot store
StoreLocks == {"last_game_state", "game_state"}

\* C20: no handler is about to run a tracker update or the debug save while
\* it holds the guard of the current or of the previous snapshot.
C20_NoWorkUnderStoreLock ==
    \A h \in Handlers :
        pc[h] \in TrackerOrDebugWork => Held(h) \cap StoreLocks = {}

\* a handler is about to run perf.update with both guards of the store in
\* hand while another request waits for the first of them
StoreLockedDuringUpdate ==
    \E h \in Handlers, g \in Handlers :
        /\ pc[h] = "perf"
        /\ StoreLocks \subseteq Held(h)
        /\ pc[g] = "lock_last_gs"

-----------------------------------------------------------------------------
(* Claims about the three tracker updates of one ingestion *)

\* the position tracker ignores the snapshot: its clock is not newer
IgnoredByTracker(state) == IsStale(enemy_tracker, state)

\* the sampler has nothing to take from the snapshot: no player
IgnoredBySampler(state) == IsNone(state.player)

\* the position tracker has been handed the snapshot and has ignored it: it
\* is at a later clock
WasIgnoredByTracker(state) == enemy_tracker.last_game_time > GameTimeOf(state)

\* handler h runs the update of the position tracker in this step
TrackerUpdates(h) == pc[h] = "enemy" /\ pc'[h] = "lock_perf"

\* handler h leaves the closure in this step
Returns(h) == pc[h] = "set" /\ pc'[h] = "idle"

\* C22: in one ingestion each of the three trackers applies its own update to
\* the snapshot, whatever the two others make of it: a snapshot the position
\* tracker ignores as stale is still sampled and compared, a snapshot without
\* a player still reaches the position tracker and the detector, a snapshot
\* without a hero still reaches the position tracker and the sampler; when
\* the request returns, each tracker has been handed every snapshot stored.
C22_TrackersUpdateIndependently ==
    [][\A h \in Handlers :
          /\ TrackerUpdates(h)
             => /\ enemy_tracker' = EnemyPositionTracker_update(enemy_tracker, req[h][1])
                /\ (IgnoredBySampler(req[h][1]) /\ ~IgnoredByTracker(req[h][1]))
                   => enemy_tracker'.last_game_time = GameTimeOf(req[h][1])
          /\ SamplerUpdates(h)
             => /\ perf_tracker' =
                       HeroPerformanceTracker_update(perf_tracker, req[h][1],
                                                     last_game_state)
                /\ (WasIgnoredByTracker(req[h][1]) /\ ~IgnoredBySampler(req[h][1])
                    /\ IsSome(req[h][1].player[1].gpm))
                   => Len(perf_tracker'.gpm_samples) = Len(perf_tracker.gpm_samples) + 1
          /\ DetectorUpdates(h)
             => team_fight_analyzer' =
                    TeamFightAnalyzer_update(team_fight_analyzer, req[h][1],
                                             last_game_state)
          /\ Returns(h) => \A tracker \in Trackers : processed'[tracker] = stored']_vars

\* C22 witness: the position tracker is at clock 20 and ignored the snapshot
\* of clock 10 that came after, while the sampler took a sample from it.
C22_Witness ==
    /\ \A h \in Handlers : pc[h] = "idle"
    /\ enemy_tracker.last_game_time = 20
    /\ Len(perf_tracker.gpm_samples) = 2
    /\ perf_tracker.gpm_samples[1][1] = 20
    /\ perf_tracker.gpm_samples[2][1] = 10

-----------------------------------------------------------------------------
(* Claims about the death events of TeamFightAnalyzer::update *)

\* the snapshot carries a hero whose alive flag is not Some(false): the flag
\* is Some(true) or absent
NotKnownDead(gs) ==
    /\ IsSome(gs)
    /\ IsSome(gs[1].hero)
    /\ gs[1].hero[1].alive # Some(FALSE)

\* the update of this step appended one death stamped with the clock of `state`
DeathEmitted ==
    team_fight_analyzer'.player_deaths
        = Append(team_fight_analyzer.player_deaths, GameTimeOf(arg_state'[1]))

\* the update of this step left the deaths alone
NoDeathEmitted ==
    team_fight_analyzer'.player_deaths = team_fight_analyzer.player_deaths

\* C23 as stated: a death is emitted, stamped with the current clock, exactly
\* when the alive flag is known true in the previous snapshot and known false
\* in the current one; an absent flag or hero on either side emits nothing.
C23_DeathOnlyOnKnownChange ==
    [][IF KnownAlive(arg_last') /\ KnownDead(arg_state')
       THEN DeathEmitted ELSE NoDeathEmitted]_vars

\* what the code does: a death is emitted, stamped with the current clock,
\* exactly when both snapshots carry a hero, the current alive flag is
\* Some(false) and the previous alive flag is Some(true) or absent: an absent
\* previous flag is read as alive.  A missing hero on either side, a missing
\* previous snapshot, a previous flag of Some(false) and an absent current
\* flag emit nothing.
DeathOnChangeFromNotDead ==
    [][IF NotKnownDead(arg_last') /\ KnownDead(arg_state')
       THEN DeathEmitted ELSE NoDeathEmitted]_vars

\* the previous snapshot carries a hero without alive flag, the current one a
\* dead hero, and the death is on record at the current clock
DeathAfterAbsentFlag ==
    /\ IsSome(arg_last)
    /\ IsSome(arg_last[1].hero)
    /\ IsNone(arg_last[1].hero[1].alive)
    /\ KnownDead(arg_state)
    /\ Len(team_fight_analyzer.player_deaths) = 2
    /\ Last(team_fight_analyzer.player_deaths) = GameTimeOf(arg_state[1])

\* the hero was dead before and is dead now: no death is recorded
NoDeathWhileDead ==
    /\ KnownDead(arg_last)
    /\ KnownDead(arg_state)
    /\ team_fight_analyzer.player_deaths = <<>>

-----------------------------------------------------------------------------
(* Claims about team_fight_start *)

\* C24: the update that takes the detector from Calm to Engaged records its
\* own clock as the start of the engagement, and every update that finds the
\* detector Engaged and leaves it Engaged keeps that start, whether or not it
\* adds events.
C24_StartFixedWhileEngaged ==
    [][LET before == team_fight_analyzer
           after == team_fight_analyzer'
       IN  /\ (~before.team_fight_detected /\ after.team_fight_detected)
              => after.team_fight_start = GameTimeOf(arg_state'[1])
           /\ (before.team_fight_detected /\ after.team_fight_detected)
              => after.team_fight_start = before.team_fight_start]_vars

\* C24 witness: the detector is Engaged since clock 20, and the latest update,
\* at clock 36, recorded a further event and left it so.
C24_Witness ==
    /\ team_fight_analyzer.team_fight_detected
    /\ team_fight_analyzer.team_fight_start = 20
    /\ IsSome(arg_state)
    /\ GameTimeOf(arg_state[1]) = 36
    /\ team_fight_analyzer.last_kill_time = 36
    /\ EventCount(team_fight_analyzer) >= 4

\* the detector is Engaged since clock 20 and the latest update, at clock 34
\* and without event, left it so
EngagedThroughQuietUpdate ==
    /\ team_fight_analyzer.team_fight_detected
    /\ team_fight_analyzer.team_fight_start = 20
    /\ IsSome(arg_state)
    /\ GameTimeOf(arg_state[1]) = 34
    /\ team_fight_analyzer.last_kill_time = 20

-----------------------------------------------------------------------------
(* Claims about the last-hit rate of HeroPerformanceTracker::display_metrics *)

\* output is the report of the sampler as it is now, and the last-hit series
\* holds at least 2 samples
CsReported ==
    /\ output.op = "display_metrics"
    /\ Len(perf_tracker.last_hits_samples) >= 2

\* the latest last-hit count
LatestLastHits == Last(perf_tracker.last_hits_samples)[2]

\* whole minutes of the report's clock
WholeMinutes == output.at \div 60

\* the lines of the report with this text
LinesWith(text) == {i \in 1..Len(output.lines) : output.lines[i].text = text}

\* the report carries one rate line, and its value is LatestLastHits /
\* WholeMinutes to the nearest tenth
RateLineIsQuotient ==
    /\ Cardinality(LinesWith("CS/min: {:.1}")) = 1
    /\ \A i \in LinesWith("CS/min: {:.1}") :
           LET tenths == output.lines[i].args[1]
           IN  2 * Abs(10 * LatestLastHits - tenths * WholeMinutes) <= WholeMinutes

\* the benchmark line of the report is the one the two tables give
BenchmarkFollowsTables ==
    LET l == LatestLastHits
        m == WholeMinutes
    IN  /\ HasLine("Excellent early game CS") <=> (m < 10 /\ l >= 7 * m)
        /\ HasLine("Good early game CS") <=> (m < 10 /\ l >= 5 * m /\ l < 7 * m)
        /\ HasLine("Early game CS needs improvement") <=> (m < 10 /\ l < 3 * m)
        /\ HasLine("Excellent CS") <=> (m >= 10 /\ l >= 8 * m)
        /\ HasLine("Good CS") <=> (m >= 10 /\ l >= 6 * m /\ l < 8 * m)
        /\ HasLine("CS needs improvement") <=> (m >= 10 /\ l < 4 * m)

\* the report carries neither a rate line nor a benchmark line
NoCsLines ==
    \A text \in {"CS/min: {:.1}", "Excellent early game CS", "Good early game CS",
                 "Early game CS needs improvement", "Excellent CS", "Good CS",
                 "CS needs improvement"} : ~HasLine(text)

\* C29: a report at a clock below 60 seconds has zero whole minutes and
\* carries no last-hit rate and no benchmark; a report at 60 seconds or more
\* carries the rate last hits / whole minutes and the benchmark of the table
\* of its phase (7, 5 and 3 per minute before minute 10; 8, 6 and 4 after).
C29_RateGuardedAndClassified ==
    CsReported =>
        IF output.at < 60 THEN NoCsLines
        ELSE RateLineIsQuotient /\ BenchmarkFollowsTables

\* C29 witness: a report at 30 seconds on a sampler with two last-hit samples.
C29_Witness ==
    /\ CsReported
    /\ output.at = 30
    /\ LatestLastHits > 0

\* a report at minute 10 with 60 last hits: 6.0 per minute, "Good CS"
LateTableReached ==
    /\ CsReported
    /\ output.at = 600
    /\ LatestLastHits = 60
    /\ HasLine("Good CS")

\* a report at minute 4 with 5 last hits: the quotient 1.25 is printed as 1.2
TieToEvenReached ==
    /\ CsReported
    /\ output.at = 240
    /\ LatestLastHits = 5
    /\ \E i \in LinesWith("CS/min: {:.1}") : output.lines[i].args = <<12>>

-----------------------------------------------------------------------------
(* Claims about assess_team_fight_readiness *)

\* output is the score of the snapshot arg_state and its advisory
Assessed == output.op = "assess_team_fight_readiness"

\* the snapshot carries a hero with health at or below 50 and mana at or
\* below 40, and no abilities
Exhausted(state) ==
    /\ IsSome(state.hero)
    /\ IsSome(state.hero[1].health_percent)
    /\ state.hero[1].health_percent[1] <= 50
    /\ IsSome(state.hero[1].mana_percent)
    /\ state.hero[1].mana_percent[1] <= 40
    /\ IsNone(state.abilities)

\* the advisory of the score is the one of its tier, and of no other tier
OneTier ==
    /\ Len(output.lines) = 1
    /\ output.lines[1].text =
           (IF output.at >= 4
            THEN "Team fight readiness: Excellent! All systems ready."
            ELSE IF output.at >= 2
            THEN "Team fight readiness: Good. Most resources available."
            ELSE IF output.at >= 0
            THEN "Team fight readiness: Caution advised. Limited resources."
            ELSE "Team fight readiness: Not ready. Consider retreating.")

\* C27 as stated: the score is never negative (0..7), and it has one tier.
C27_ScoreNeverNegative ==
    Assessed => (output.at \in 0..7 /\ OneTier)

\* C27: the score is an integer from -2 to 7: low health and low mana each
\* take one point away, so a hero with both and no abilities scores -2; every
\* score has exactly one of the four tiers, the negative ones "Not ready".
C27_ScoreFromMinusTwoToSeven ==
    Assessed =>
        /\ output.at \in -2..7
        /\ OneTier
        /\ Exhausted(arg_state[1]) => output.at = -2

\* C27 witness: a hero with health 50 and mana 40 and no abilities scores -2
\* and is told "Not ready".
C27_Witness ==
    /\ Assessed
    /\ Exhausted(arg_state[1])
    /\ output.at = -2
    /\ output.lines[1].text = "Team fight readiness: Not ready. Consider retreating."

\* the highest score: health above 80, mana above 70, a castable ultimate
\* and every active ability castable
FullScoreReached == Assessed /\ output.at = 7

-----------------------------------------------------------------------------
(* Claims about display_coaching_insights *)

\* the display thread has printed a whole display, the latest one
InsightsShown == output.op = "display_coaching_insights"

\* the snapshot of the latest display
Displayed == req[DisplayThread][1]

\* the latest display is one of the current snapshot and no request is in
\* progress: the payloads of a feed differ, so no tracker has changed since
\* the display thread cloned the snapshot
DisplayIsCurrent ==
    /\ InsightsShown
    /\ \A h \in Handlers : pc[h] = "idle"
    /\ req[DisplayThread] = game_state

\* the index of the line with this text; 0 when there is none
LineIndex(text) ==
    IF HasLine(text) THEN CHOOSE i \in 1..Len(output.lines) : output.lines[i].text = text
    ELSE 0

\* the headers of the three sections that a tracker fills
SectionHeaders == {"TEAM FIGHT STATUS", "ENEMY TRACKING", "PERFORMANCE METRICS"}

\* the headers of the three phase blocks
PhaseHeaders == {"EARLY GAME COACHING", "MID GAME COACHING", "LATE GAME COACHING"}

\* the index of the header of the phase block
PhaseIndex ==
    CHOOSE i \in 0..Len(output.lines) :
        IF \E h \in PhaseHeaders : HasLine(h)
        THEN i > 0 /\ output.lines[i].text \in PhaseHeaders
        ELSE i = 0

\* the section under `header` is printed exactly when `content` has lines,
\* and then holds those lines right under its header
SectionShows(header, content) ==
    IF content = <<>> THEN ~HasLine(header)
    ELSE /\ Cardinality(LinesWith(header)) = 1
         /\ SubSeq(output.lines, LineIndex(header) + 1,
                   LineIndex(header) + Len(content)) = content

\* a is printed before b, when a is printed at all
Precedes(a, b) == a > 0 => a < b

\* the sections that are printed are in their order
SectionsInOrder ==
    /\ PhaseIndex > 0
    /\ Precedes(LineIndex("TEAM FIGHT STATUS"), PhaseIndex)
    /\ Precedes(LineIndex("ENEMY TRACKING"), PhaseIndex)
    /\ Precedes(LineIndex("PERFORMANCE METRICS"), PhaseIndex)
    /\ LineIndex("ENEMY TRACKING") > 0
       => Precedes(LineIndex("TEAM FIGHT STATUS"), LineIndex("ENEMY TRACKING"))
    /\ LineIndex("PERFORMANCE METRICS") > 0
       => /\ Precedes(LineIndex("TEAM FIGHT STATUS"), LineIndex("PERFORMANCE METRICS"))
          /\ Precedes(LineIndex("ENEMY TRACKING"), LineIndex("PERFORMANCE METRICS"))
    /\ HasLine("Predicted movements:")
       => /\ LineIndex("ENEMY TRACKING") > 0
          /\ LineIndex("ENEMY TRACKING") < LineIndex("Predicted movements:")
          /\ LineIndex("Predicted movements:") < PhaseIndex
          /\ Precedes(LineIndex("Predicted movements:"), LineIndex("PERFORMANCE METRICS"))

\* no header stands over an empty section
NoEmptySection ==
    \A header \in SectionHeaders :
        HasLine(header)
        => /\ Cardinality(LinesWith(header)) = 1
           /\ LineIndex(header) < Len(output.lines)
           /\ output.lines[LineIndex(header) + 1].text
                  \notin {""} \cup SectionHeaders \cup PhaseHeaders

\* the lines are those of display_coaching_insights for the snapshot and the
\* trackers: a section is there exactly when its tracker has something to
\* report
SectionsFollowTrackers ==
    \E order \in KeyOrders(enemy_tracker.positions) :
        /\ SectionShows("TEAM FIGHT STATUS",
                        get_team_fight_status(team_fight_analyzer, output.at))
        /\ SectionShows("ENEMY TRACKING",
                        get_movement_descriptions(enemy_tracker, output.at, order))
        /\ SectionShows("PERFORMANCE METRICS", display_metrics(perf_tracker, output.at))
        /\ output.lines =
               display_coaching_insights(Displayed, output.at, enemy_tracker,
                                         perf_tracker, team_fight_analyzer, order,
                                         FALSE).lines

\* C25: what is displayed holds the engagement status, the enemy tracking
\* with its predictions, the performance metrics and the phase block in this
\* order; no header stands over an empty section and the others keep their
\* order; what is displayed of the current snapshot, while no request is in
\* progress, is a function of that snapshot and of the three trackers, with a
\* section for each tracker that has something to report.
C25_SectionsInFixedOrder ==
    InsightsShown =>
        /\ SectionsInOrder
        /\ NoEmptySection
        /\ DisplayIsCurrent => SectionsFollowTrackers

\* C25 witness: all four sections are displayed.
C25_Witness ==
    /\ DisplayIsCurrent
    /\ LineIndex("TEAM FIGHT STATUS") = 3
    /\ LineIndex("ENEMY TRACKING") > 3
    /\ HasLine("Predicted movements:")
    /\ LineIndex("PERFORMANCE METRICS") > LineIndex("Predicted movements:")
    /\ PhaseIndex > LineIndex("PERFORMANCE METRICS")

\* a display without engagement status and without predictions
SectionsOmittedReached ==
    /\ DisplayIsCurrent
    /\ ~HasLine("TEAM FIGHT STATUS")
    /\ LineIndex("ENEMY TRACKING") = 3
    /\ ~HasLine("Predicted movements:")
    /\ HasLine("PERFORMANCE METRICS")

\* a display whose sections were read from the trackers before and after an
\* update: the snapshot displayed is no longer the current one
DisplayOvertaken ==
    /\ InsightsShown
    /\ req[DisplayThread] # game_state
    /\ processed["perf_tracker"] # <<>>
    /\ Last(processed["perf_tracker"]) # Displayed

\* C26: what is displayed holds exactly one phase block: the early one when
\* clock / 60 is below 10, the mid one from 10 and below 25, the late one
\* from 25 on.
C26_OnePhasePerClock ==
    InsightsShown =>
        LET minutes == TruncDiv(output.at, 60)
            shown == {h \in PhaseHeaders : HasLine(h)}
        IN  /\ output.at = DisplayTimeOf(Displayed)
            /\ Cardinality(shown) = 1
            /\ \A h \in shown : Cardinality(LinesWith(h)) = 1
            /\ HasLine("EARLY GAME COACHING") <=> minutes < 10
            /\ HasLine("MID GAME COACHING") <=> (minutes >= 10 /\ minutes < 25)
            /\ HasLine("LATE GAME COACHING") <=> minutes >= 25

\* C26 witness: at clock 600, minute 10, the mid game block is displayed.
C26_Witness ==
    /\ InsightsShown
    /\ output.at = 600
    /\ HasLine("MID GAME COACHING")

\* a display at minute 9
EarlyBoundaryReached ==
    InsightsShown /\ output.at = 599 /\ HasLine("EARLY GAME COACHING")

\* displays at minute 24 and at minute 25
LateBoundaryReached ==
    InsightsShown /\ output.at = 1500 /\ HasLine("LATE GAME COACHING")

\* a display of a snapshot without clock
NoClockReached ==
    InsightsShown /\ output.at = -1 /\ HasLine("EARLY GAME COACHING")

\* the lines that name a predicted position
PredictionIndexes == LinesWith("{} likely at ({}, {})")

\* the line after line i is the proximity warning
WarningFollows(i) ==
    /\ i < Len(output.lines)
    /\ output.lines[i + 1].text = "WARNING: This enemy may be very close to you!"

\* the point <<x, y>> is less than 2000 units from the hero of the snapshot
\* displayed, whose position is known
TrulyNear(x, y) ==
    LET player == PlayerPosition(Displayed)
    IN  /\ IsSome(player)
        /\ x - player[1][1] < ProximityRange
        /\ player[1][1] - x < ProximityRange
        /\ y - player[1][2] < ProximityRange
        /\ player[1][2] - y < ProximityRange
        /\ (x - player[1][1]) * (x - player[1][1])
               + (y - player[1][2]) * (y - player[1][2])
           < ProximityRange * ProximityRange

\* every predicted position carries the warning exactly when it is truly near
WarningsExact ==
    \A i \in PredictionIndexes :
        WarningFollows(i) <=> TrulyNear(output.lines[i].args[2], output.lines[i].args[3])

\* the display thread has printed the predictions of the display in progress,
\* or the whole display
PredictionsPrinted ==
    InsightsShown \/ pc[DisplayThread] \in {"d_lock_perf", "d_metrics", "d_panicked"}

\* C28: in what the display thread prints, a predicted position carries the
\* proximity warning exactly when the hero's position is known and the
\* position is less than 2000 units away.
C28_WarnsExactlyWithinRange == PredictionsPrinted => WarningsExact

\* What the display guarantees instead: when the difference of the
\* coordinates squares within 32 bits, the warning is attached exactly to
\* the positions less than 2000 units away.
WarnsWithinRangeBarringOverflow ==
    PredictionsPrinted =>
        \A i \in PredictionIndexes :
            LET x == output.lines[i].args[2]
                y == output.lines[i].args[3]
                player == PlayerPosition(Displayed)
            IN  (IsSome(player) => ~DistanceOverflows(x, y, player[1][1], player[1][2]))
                => (WarningFollows(i) <=> TrulyNear(x, y))

\* a warning 1999 units from the hero
WarningAt1999Reached ==
    /\ InsightsShown
    /\ \E i \in PredictionIndexes :
           /\ output.lines[i].args[2] = 1999
           /\ PlayerPosition(Displayed) = Some(<<0, 0>>)
           /\ WarningFollows(i)

\* no warning 2000 units from the hero
NoWarningAt2000Reached ==
    /\ InsightsShown
    /\ \E i \in PredictionIndexes :
           /\ output.lines[i].args[2] = 2000
           /\ PlayerPosition(Displayed) = Some(<<0, 0>>)
           /\ ~WarningFollows(i)

\* no warning when the hero has no xpos, and none when there is no hero
NoWarningWithoutPositionReached ==
    /\ InsightsShown
    /\ PredictionIndexes # {}
    /\ IsNone(PlayerPosition(Displayed))
    /\ \A i \in PredictionIndexes : ~WarningFollows(i)

\* a build without overflow checks warns of an enemy 65536 units away
FalseWarningReached ==
    /\ InsightsShown
    /\ \E i \in PredictionIndexes :
           output.lines[i].args[2] = 65536 /\ WarningFollows(i)

\* a build with overflow checks panics in the loop over the predictions, the
\* display thread ends, and main leaves join with a panic of its own
PanicReached ==
    /\ pc[DisplayThread] = "d_joined"
    /\ output.op = "panic"
    /\ PredictionIndexes # {}

-----------------------------------------------------------------------------
(* Claims about the mutexes of main *)

\* thread t has called lock() on a mutex whose guard thread u holds
WaitsFor(t, u) == IsSome(Wanted(t)) /\ Wanted(t)[1] \in Holding(u)

\* every thread of S waits for a mutex held by a thread of S
Deadlocked(S) == S # {} /\ \A t \in S : \E u \in S : WaitsFor(t, u)

NoDeadlock == \A S \in SUBSET Threads : ~Deadlocked(S)

DisplayAndHandlerWaitForHandler ==
    \E h \in Handlers :
        /\ WaitsFor(DisplayThread, h)
        /\ \E g \in Handlers \ {h} : WaitsFor(g, h)

\* a handler that holds last_game_state waits for the display thread to
\* drop game_state
HandlerWaitsForDisplay == \E h \in Handlers : WaitsFor(h, DisplayThread)

-----------------------------------------------------------------------------
(* Claims about the run loop of the terminal application *)

\* the key events of q, Esc and Ctrl+C
IsQuitKey(event) ==
    /\ event.kind = "Key"
    /\ \/ event.code \in {"q", "Esc"}
       \/ (event.code = "c" /\ event.modifiers = {"CONTROL"})

\* the loop received the oldest event; a quit key put Quit behind the rest
Received ==
    /\ channel # <<>>
    /\ channel' = IF IsQuitKey(Head(channel))
                  THEN Append(Tail(channel), Quit)
                  ELSE Tail(channel)

\* running changes only when Quit is received, and then to false
StopsOnlyOnQuit ==
    running' # running => (running /\ ~running' /\ channel # <<>> /\ Head(channel) = Quit)

\* C30: the channel is a FIFO queue in which a received q, Esc or Ctrl+C puts
\* Quit behind the pending events; running stays true until Quit is
\* received and turns false then, whatever else is received; and once a quit
\* key or Quit is in the channel the loop comes to its end.
C30_QuitIsQueuedAndEndsTheLoop ==
    /\ [][channel' # channel =>
              (Received \/ \E event \in Inputs : channel' = Append(channel, event))]_vars
    /\ [][StopsOnlyOnQuit]_vars
    /\ (\E i \in DOMAIN channel : IsQuitKey(channel[i]) \/ channel[i] = Quit) ~> ~running

\* Quit waits behind a tick and another event while the loop is running
C30_Witness ==
    /\ running
    /\ Len(channel) = 3
    /\ channel[1] = Tick
    /\ channel[3] = Quit

\* the loop has ended with events left in the channel
LoopEndedReached == ~running /\ channel # <<>>

\* three events that are no quit key were received and the loop is running
StillRunningReached == running /\ steps = MaxInputs /\ channel = <<>>

-----------------------------------------------------------------------------
(* Claims about what the display thread reads *)

\* s is an initial part of t
IsPrefix(s, t) == Len(s) <= Len(t) /\ SubSeq(t, 1, Len(s)) = s

\* the trackers whose guard the display thread holds, that is, reads from
TrackersRead == ScopedGuards(DisplayThread) \cap Trackers

\* C31: a snapshot the display thread finds in game_state has been handed to
\* the update of the position tracker, the metric sampler and the event
\* detector before it became the current one, and when the display thread
\* later reads a tracker for the snapshot it cloned, that tracker has been
\* updated with that snapshot and with every snapshot stored before it: the
\* tracker is as new as the snapshot or newer, never older.
C31_TrackersNotOlderThanCurrent ==
    /\ (pc[DisplayThread] = "d_clone" /\ IsSome(game_state)) =>
           /\ stored # <<>>
           /\ game_state[1] = Last(stored)
           /\ \A tracker \in Trackers : IsPrefix(stored, processed[tracker])
    /\ \A tracker \in TrackersRead :
           \E i \in DOMAIN stored :
               /\ stored[i] = req[DisplayThread][1]
               /\ IsPrefix(SubSeq(stored, 1, i), processed[tracker])

\* the display thread reads the metric sampler for the first snapshot while a
\* handler has already updated the sampler with the second
C31_Witness ==
    /\ pc[DisplayThread] = "d_metrics"
    /\ Len(stored) = 1
    /\ req[DisplayThread] = Some(stored[1])
    /\ Len(processed["perf_tracker"]) = 2
    /\ processed["perf_tracker"][2] # stored[1]

\* the display thread reads the event detector when it has seen no snapshot
\* after the displayed one
TrackerAsOldAsSnapshot ==
    /\ pc[DisplayThread] = "d_status"
    /\ req[DisplayThread] = Some(Last(stored))
    /\ processed["team_fight_analyzer"] = stored

-----------------------------------------------------------------------------
(* Claims about the sampler and the detector of one endpoint *)

\* handler h has updated the sampler and not yet the detector (coach.rs
\* 717-721)
BetweenSamplerAndDetector(h) == pc[h] \in {"lock_team_fight", "team_fight"}

\* C32: unless a request is between its update of the sampler and its update
\* of the detector, the death counter of the metric sampler is the length of
\* the player-death list of the event detector, and when the list is not
\* empty the sampler's last-death clock is the last entry of the list.
C32_SamplerAgreesWithDetector ==
    (\A h \in Handlers : ~BetweenSamplerAndDetector(h)) =>
        /\ perf_tracker.death_count = Len(team_fight_analyzer.player_deaths)
        /\ team_fight_analyzer.player_deaths # <<>> =>
               perf_tracker.last_death_time = Last(team_fight_analyzer.player_deaths)

\* two deaths have been counted by both, the second at a later clock
C32_Witness ==
    /\ \A h \in Handlers : pc[h] = "idle"
    /\ perf_tracker.death_count = 2
    /\ Len(team_fight_analyzer.player_deaths) = 2
    /\ team_fight_analyzer.player_deaths[1] < team_fight_analyzer.player_deaths[2]
    /\ perf_tracker.last_death_time = team_fight_analyzer.player_deaths[2]

-----------------------------------------------------------------------------
(* Claims about the transitions of the event detector *)

\* the update of this step is given a snapshot whose clock is not below the
\* clock of the snapshot of the update before it
ClockDoesNotFallBack ==
    IsSome(arg_state) => GameTimeOf(arg_state'[1]) >= GameTimeOf(arg_state[1])

\* the update of this step appends no death and no kill
EmitsNoEvent == EventCount(team_fight_analyzer') = EventCount(team_fight_analyzer)

\* C33: an update whose snapshot clock is not below that of the update before
\* it and which emits no event leaves a detector that is Calm in Calm; with
\* clocks that never fall back, Calm -> Engaged happens only in an update
\* that emits a death or a kill.
C33_QuietUpdateStartsNoFight ==
    [][(/\ ClockDoesNotFallBack
        /\ EmitsNoEvent
        /\ ~team_fight_analyzer.team_fight_detected)
       => ~team_fight_analyzer'.team_fight_detected]_vars

\* two events at clock 20 and an update without event at clock 34: the last
\* event is 14 seconds old, which is inside the quiet time, and the detector
\* is Calm
C33_Witness ==
    /\ IsSome(arg_state)
    /\ GameTimeOf(arg_state[1]) = 34
    /\ team_fight_analyzer.last_kill_time = 20
    /\ count_kills_in_window(team_fight_analyzer, 34, FightWindow) = 2
    /\ ~team_fight_analyzer.team_fight_detected

\* with a clock that falls back an update without event does start a fight:
\* the window of the earlier clock holds events the later window had left out
FightStartedWithoutEvent ==
    /\ team_fight_analyzer.team_fight_detected
    /\ team_fight_analyzer.team_fight_start < team_fight_analyzer.last_kill_time
    /\ count_kills_in_window(team_fight_analyzer, team_fight_analyzer.team_fight_start, 0)
           = count_kills_in_window(team_fight_analyzer,
                                   team_fight_analyzer.team_fight_start + 1, 0)

\* C34: an update that emits a death or a kill leaves a detector that is
\* Engaged in Engaged, and no update both starts and ends an engagement: an
\* update that finds the detector Calm and leaves it Calm has not written the
\* start clock in between.
C34_EventKeepsEngaged ==
    [][/\ (/\ EventCount(team_fight_analyzer') > EventCount(team_fight_analyzer)
            /\ team_fight_analyzer.team_fight_detected)
           => team_fight_analyzer'.team_fight_detected
       /\ (/\ ~team_fight_analyzer.team_fight_detected
            /\ ~team_fight_analyzer'.team_fight_detected)
           => team_fight_analyzer'.team_fight_start
                  = team_fight_analyzer.team_fight_start]_vars

\* an engagement that started at clock 5 is still on after an update at
\* clock 20 that emitted a kill, 15 seconds after the events before it
C34_Witness ==
    /\ team_fight_analyzer.team_fight_detected
    /\ team_fight_analyzer.team_fight_start = 5
    /\ team_fight_analyzer.last_kill_time = 20
    /\ count_kills_in_window(team_fight_analyzer, 20, 0) >= 1
    /\ steps = 2

-----------------------------------------------------------------------------
(* Claims about the clock of the position tracker *)

\* C35: last_game_time of the position tracker is 0 in a new tracker and is
\* never negative; no update lowers it; an update with a snapshot of a later
\* clock sets it to that clock, whether or not the snapshot adds a sample;
\* and a snapshot whose clock is 0, negative or absent adds no sample.
C35_ClockOnlyAdvances ==
    /\ [](/\ enemy_tracker.last_game_time >= 0
           /\ ((steps = 0 /\ enemy_tracker.positions = NoPositions)
                  => (enemy_tracker.last_game_time = 0)))
    /\ [][/\ enemy_tracker'.last_game_time >= enemy_tracker.last_game_time
           /\ ((GameTimeOf(arg_state'[1]) > enemy_tracker.last_game_time)
                  => (enemy_tracker'.last_game_time = GameTimeOf(arg_state'[1])))
           /\ ((GameTimeOf(arg_state'[1]) <= 0)
                  => (enemy_tracker'.positions = enemy_tracker.positions))]_vars

\* a new tracker took a snapshot of clock 1 that added no sample, and then
\* dropped a snapshot without a clock that shows an enemy
C35_Witness ==
    /\ steps = 2
    /\ enemy_tracker.positions = NoPositions
    /\ enemy_tracker.last_game_time = 1
    /\ IsNone(arg_state[1].map)
    /\ arg_state[1].minimap = Some(<<Axe3>>)

\* a new tracker dropped a snapshot of clock -1 that shows an enemy
NegativeClockDropped ==
    /\ steps = 1
    /\ enemy_tracker = EnemyPositionTracker_new
    /\ arg_state[1].map = Some(Map(Some(-1)))
    /\ arg_state[1].minimap = Some(<<Axe3>>)

-----------------------------------------------------------------------------
(* Claims about the enemy table of the terminal application *)

\* the step is the call of update() of one turn of the loop
Polls == app_pc = "update" /\ app_pc' = "next"

\* what extract_enemy_heroes returns for the snapshot a poll of this step finds
Extracted ==
    IF IsNone(game_state) THEN NoEnemyHeroes ELSE extract_enemy_heroes(game_state[1])

\* the position or the estimated level of entry n differs after the step
EntryMoved(n) ==
    \/ enemy_heroes'[n].position # enemy_heroes[n].position
    \/ enemy_heroes'[n].estimated_level # enemy_heroes[n].estimated_level

\* C36: an entry of enemy_heroes is never removed, its last_seen never
\* decreases, its position and estimated level change only in a poll whose
\* extracted record of that name has a strictly greater last_seen than the
\* stored one, and a second poll of the snapshot just polled changes nothing.
C36_TableKeepsNewestSighting ==
    [][/\ DOMAIN enemy_heroes \subseteq DOMAIN enemy_heroes'
       /\ \A n \in DOMAIN enemy_heroes :
              /\ enemy_heroes'[n].last_seen >= enemy_heroes[n].last_seen
              /\ EntryMoved(n) =>
                     /\ n \in DOMAIN Extracted
                     /\ Extracted[n].last_seen > enemy_heroes[n].last_seen
       /\ Polls =>
              App_update([enemy_heroes |-> enemy_heroes', game_time |-> app_game_time'],
                         game_state)
                  = [enemy_heroes |-> enemy_heroes', game_time |-> app_game_time']]_vars

\* the table holds Axe as seen at clock 120, and the loop has since polled a
\* snapshot without a clock that shows Axe somewhere else
C36_Witness ==
    /\ Len(stored) = 2
    /\ GameTimeOf(stored[1]) = 120
    /\ stored[1].minimap = Some(<<Axe3>>)
    /\ game_state = Some(stored[2])
    /\ IsNone(stored[2].map)
    /\ stored[2].minimap = Some(<<EnemyIcon(AxeName, 20, 0), AxeAlias3>>)
    /\ app_game_time = 0
    /\ app_pc = "next"
    /\ enemy_heroes = [n \in {<<"Axe">>} |-> EnemyHero(<<"Axe">>, <<10, 0>>, 120, 2)]

\* the entry of an enemy seen at clock 0 is still in the table after the
\* poll of a snapshot of clock 120 that shows only another enemy
AbsentEnemyKept ==
    /\ Len(stored) = 2
    /\ stored[1].minimap = Some(<<Lina3>>)
    /\ DOMAIN enemy_heroes = {<<"Axe">>, <<"Lina">>}
    /\ enemy_heroes[<<"Lina">>].last_seen = 0
    /\ enemy_heroes[<<"Axe">>] = EnemyHero(<<"Axe">>, <<0, 10>>, 120, 2)

-----------------------------------------------------------------------------
(* Claims about predictions and descriptions of one tracker state *)

\* the heroes of the predictions predict_movements has returned
PredictedNames == {output.lines[i][1] : i \in DOMAIN output.lines}

\* the heroes get_movement_descriptions returns a "Last seen" line for
DescribedNames(game_time, order) ==
    LET lines == get_movement_descriptions(enemy_tracker, game_time, order)
    IN  {lines[i].args[1] : i \in {j \in DOMAIN lines : Len(lines[j].args) = 4}}

\* C37: whenever predict_movements has returned its predictions for a
\* game_time, every hero with a prediction has a "Last seen" line in what
\* get_movement_descriptions returns for the same tracker and game_time,
\* whatever the order in which its loop meets the keys; so when the
\* descriptions are empty, which makes display_coaching_insights skip the
\* predictions, there is no prediction to show.
C37_PredictedAreDescribed ==
    output.op = "predict_movements" =>
        \A order \in KeyOrders(enemy_tracker.positions) :
            /\ PredictedNames \subseteq DescribedNames(output.at, order)
            /\ (get_movement_descriptions(enemy_tracker, output.at, order) = <<>>)
                   => (output.lines = <<>>)

\* predict_movements has returned a prediction for Axe at the last game_time
\* at which it predicts, 30 seconds after the latest sample, while Lina, seen
\* once, is described and not predicted
C37_Witness ==
    /\ output.op = "predict_movements"
    /\ output.at = enemy_tracker.last_game_time + 30
    /\ Len(output.lines) = 1
    /\ output.lines[1][1] = <<"Axe">>
    /\ \A order \in KeyOrders(enemy_tracker.positions) :
           DescribedNames(output.at, order) = {<<"Axe">>, <<"Lina">>}
====
